---- MODULE Spec2Model ----
(***************************************************************************)
(* Model of the RVO (ORCA) crowd engine: Vector2, SimulationModel and      *)
(* RVOModel.                                                               *)
(*                                                                         *)
(* A JavaScript number is modelled as a binary floating-point value        *)
(* [m |-> mantissa, e |-> exponent] standing for m * 2^e, normalised so    *)
(* that m = 0 or MantMin <= |m| < MantMax, with round-to-nearest after     *)
(* every operation.  The mantissa is narrower than an IEEE double's so     *)
(* that every intermediate product stays inside TLC's integers.            *)
(*                                                                         *)
(* Spec runs the engine as its host does: resize, reset, configure and     *)
(* update, a tick taking one step per agent.  SpecNeighbors, SpecLP and    *)
(* SpecOrder run buildNeighborTable, linearProgram2 and update on inputs   *)
(* drawn from bounded sets; SpecConstraint, SpecLP1, SpecProj and SpecNear *)
(* do so for appendAgentConstraint, linearProgram1, the reduction loop of  *)
(* linearProgram3 and the solve of one agent among close neighbours.       *)
(* SpecHistory runs histories of whole calls, and SpecLive two groups of   *)
(* agents facing each other under repeated update calls.  SpecGoal runs    *)
(* ticks on agents set down near their anchors, and SpecOverlap the        *)
(* constraints and the advance of an overlapping pair.  SpecCA runs the    *)
(* other model of the file, CAModel, as its host does.                     *)
(***************************************************************************)
EXTENDS Integers, Sequences, FiniteSets, TLC

\* ------------------------------------------------------------------------
\* number: floating-point arithmetic
\* ------------------------------------------------------------------------

MantMin == 2 ^ 14
MantMax == 2 ^ 15
MantBits == 15

Pow2 == [i \in 0..30 |-> 2 ^ i]

Abs(n) == IF n < 0 THEN -n ELSE n
Sgn(n) == IF n < 0 THEN -1 ELSE 1

\* one step of the binary search for the top bit of n: b + k if n has a
\* bit at position b + k or above, else b
BitStep(n, b, k) == IF n >= Pow2[b + k] THEN b + k ELSE b

\* number of binary digits of n, 0 < n < 2^31
BitLen(n) ==
  BitStep(n, BitStep(n, BitStep(n, BitStep(n, BitStep(n, 0, 16), 8), 4), 2), 1) + 1

Zero == [m |-> 0, e |-> 0]
\* a non-finite result (Infinity or NaN)
NaN == [m |-> 0, e |-> 1]
IsNaN(a) == a.m = 0 /\ a.e = 1

\* the number of sign s and rounded mantissa r, MantMin <= r <= MantMax
NormRound(s, r, e) ==
  IF r = MantMax THEN [m |-> s * MantMin, e |-> e + 1]
  ELSE [m |-> s * r, e |-> e]

\* m * 2^e, where m has k binary digits more than a mantissa holds
NormShift(m, e, k) ==
  IF k > 0
    THEN NormRound(Sgn(m), (Abs(m) + Pow2[k - 1]) \div Pow2[k], e + k)
    ELSE [m |-> m * Pow2[-k], e |-> e + k]

\* round m * 2^e to the nearest representable number
Norm(m, e) ==
  IF m = 0 THEN Zero ELSE NormShift(m, e, BitLen(Abs(m)) - MantBits)

\* an integer literal
Num(n) == Norm(n, 0)

Neg(a) == [m |-> -a.m, e |-> a.e]

\* hi + lo for non-zero numbers with hi.e >= lo.e
PlusAligned(hi, lo) ==
  IF hi.e - lo.e > MantBits THEN hi
  ELSE Norm(hi.m * Pow2[hi.e - lo.e] + lo.m, lo.e)

\* a + b
Plus(a, b) ==
  IF IsNaN(a) \/ IsNaN(b) THEN NaN
  ELSE IF a.m = 0 THEN b
  ELSE IF b.m = 0 THEN a
  ELSE PlusAligned(IF a.e >= b.e THEN a ELSE b, IF a.e >= b.e THEN b ELSE a)

\* a - b
Minus(a, b) == IF IsNaN(b) THEN NaN ELSE Plus(a, Neg(b))

\* a * b
Times(a, b) ==
  IF IsNaN(a) \/ IsNaN(b) THEN NaN
  ELSE Norm(a.m * b.m, a.e + b.e)

\* a / b
Over(a, b) ==
  IF IsNaN(a) \/ IsNaN(b) \/ b.m = 0 THEN NaN
  ELSE IF a.m = 0 THEN Zero
  ELSE Norm(Sgn(a.m) * Sgn(b.m) *
              ((Abs(a.m) * MantMax + Abs(b.m) \div 2) \div Abs(b.m)),
            a.e - b.e - MantBits)

\* a literal num / den
Rat(num, den) == Over(Num(num), Num(den))

\* comparisons (false when an operand is not finite)
Lt(a, b) == ~IsNaN(a) /\ ~IsNaN(b) /\ Minus(a, b).m < 0
Le(a, b) == ~IsNaN(a) /\ ~IsNaN(b) /\ Minus(a, b).m <= 0
Gt(a, b) == Lt(b, a)
Ge(a, b) == Le(b, a)

RECURSIVE ISqrtIter(_, _)
ISqrtIter(n, x) ==
  LET y == (x + n \div x) \div 2
  IN  IF y >= x THEN x ELSE ISqrtIter(n, y)

\* floor of the square root of n, 0 < n < 2^31
ISqrt(n) == ISqrtIter(n, Pow2[16])

\* the root of a > 0, its mantissa shifted by s bits to an even exponent
SqrtShifted(a, s) == Norm(ISqrt(a.m * Pow2[s]), (a.e - s) \div 2)

\* Math.sqrt
Sqrt(a) ==
  IF IsNaN(a) \/ a.m < 0 THEN NaN
  ELSE IF a.m = 0 THEN Zero
  ELSE SqrtShifted(a, 14 + (a.e % 2))

\* Math.abs, Math.min, Math.max
MathAbs(a) == [m |-> Abs(a.m), e |-> a.e]
MathMin(a, b) == IF IsNaN(a) \/ IsNaN(b) THEN NaN ELSE IF Lt(b, a) THEN b ELSE a
MathMax(a, b) == IF IsNaN(a) \/ IsNaN(b) THEN NaN ELSE IF Gt(b, a) THEN b ELSE a

\* Math.hypot
Hypot(x, y) == Sqrt(Plus(Times(x, x), Times(y, y)))

\* Math.round to an integer (for |a| < 2^30)
RoundInt(a) ==
  IF a.m = 0 THEN 0
  ELSE IF a.e >= 0 THEN a.m * Pow2[a.e]
  ELSE IF -a.e > 30 THEN 0
  ELSE (a.m + Pow2[-a.e - 1]) \div Pow2[-a.e]

\* Math.PI
MathPI == Rat(31416, 10000)
HalfPI == Over(MathPI, Num(2))

\* sine and cosine of r, |r| <= PI / 4, by their Taylor polynomials
SinPoly(r) ==
  LET r2 == Times(r, r)
  IN  Times(r, Minus(Num(1), Times(Over(r2, Num(6)),
        Minus(Num(1), Times(Over(r2, Num(20)),
          Minus(Num(1), Over(r2, Num(42))))))))
CosPoly(r) ==
  LET r2 == Times(r, r)
  IN  Minus(Num(1), Times(Over(r2, Num(2)),
        Minus(Num(1), Times(Over(r2, Num(12)),
          Minus(Num(1), Over(r2, Num(30)))))))

\* v, negated in the third and fourth quadrant
QuadrantSign(q, v) == IF q % 4 >= 2 THEN Neg(v) ELSE v

\* sin(r + q * PI / 2) for |r| <= PI / 4
SinQuadrant(q, r) ==
  QuadrantSign(q, IF q % 2 = 0 THEN SinPoly(r) ELSE CosPoly(r))

\* sin(a + shift * PI / 2), where a is nearest to q quarter turns
SinReduced(a, q, shift) ==
  SinQuadrant(q + shift, Minus(a, Times(Num(q), HalfPI)))

\* Math.cos, Math.sin: reduce the angle to a quadrant, then the polynomial
MathCos(a) == SinReduced(a, RoundInt(Over(a, HalfPI)), 1)
MathSin(a) == SinReduced(a, RoundInt(Over(a, HalfPI)), 0)

\* ------------------------------------------------------------------------
\* Vector2
\* ------------------------------------------------------------------------

Vector2(x, y) == [x |-> x, y |-> y]
zero == Vector2(Zero, Zero)

add(v, vector) == Vector2(Plus(v.x, vector.x), Plus(v.y, vector.y))
sub(v, vector) == Vector2(Minus(v.x, vector.x), Minus(v.y, vector.y))
mult(v, scalar) == Vector2(Times(v.x, scalar), Times(v.y, scalar))
mag(v) == Hypot(v.x, v.y)

\* normalize_by dividing whatever the magnitude
normalize_by_Unguarded(v, magnitude) == mult(v, Over(Num(1), magnitude))

\* v scaled to length 1, given its magnitude
normalize_by(v, magnitude) ==
  IF magnitude = Zero THEN zero
  ELSE mult(v, Over(Num(1), magnitude))

normalize(v) == normalize_by(v, mag(v))

dist(v, vector) == mag(sub(v, vector))
dot(v, vector) == Plus(Times(v.x, vector.x), Times(v.y, vector.y))

limit(v, max) ==
  IF Le(mag(v), max) THEN v
  ELSE mult(normalize(v), max)

VecIsNaN(v) == IsNaN(v.x) \/ IsNaN(v.y)

\* ------------------------------------------------------------------------
\* RVOModel: constants and helpers
\* ------------------------------------------------------------------------

DEFAULTS_neighborRadius == Num(4)
DEFAULTS_timeHorizon == Rat(25, 10)

EPSILON == Rat(1, 100000)

pixelsPerMeter == 55
maxNeighbors == 10
agentRadiusMeters == Rat(28, 100)

absSq(v) == Plus(Times(v.x, v.x), Times(v.y, v.y))
det(a, b) == Minus(Times(a.x, b.y), Times(a.y, b.x))
perp(v) == Vector2(Neg(v.y), v.x)
\* ensureDirection passing the direction on as it is
ensureDirection_Raw(dir) == dir

ensureDirection(dir) ==
  IF Le(absSq(dir), EPSILON) THEN Vector2(Num(1), Zero) ELSE normalize(dir)

\* ------------------------------------------------------------------------
\* RVOModel: neighbour search.  Agents are numbered from 1.
\* ------------------------------------------------------------------------

NeighborRef(index, distSq) == [index |-> index, distSq |-> distSq]

\* place neighbor after every entry that does not compare greater (stable)
RECURSIVE SortedInsert(_, _)
SortedInsert(list, neighbor) ==
  IF list = << >> THEN << neighbor >>
  ELSE LET last == list[Len(list)]
       IN  IF Gt(Minus(last.distSq, neighbor.distSq), Zero)
             THEN Append(SortedInsert(SubSeq(list, 1, Len(list) - 1), neighbor), last)
             ELSE Append(list, neighbor)

\* list.sort((a, b) => a.distSq - b.distSq), a stable sort
RECURSIVE SortByDistSq(_)
SortByDistSq(list) ==
  IF list = << >> THEN << >>
  ELSE SortedInsert(SortByDistSq(SubSeq(list, 1, Len(list) - 1)), list[Len(list)])

\* PopOverflow never dropping an entry
PopOverflow_Never(list) == list

\* if (list.length > this.maxNeighbors) list.pop()
PopOverflow(list) ==
  IF Len(list) > maxNeighbors THEN SubSeq(list, 1, Len(list) - 1) ELSE list

insertNeighbor(list, neighbor) ==
  PopOverflow(SortByDistSq(Append(list, neighbor)))

\* the pair (i, j) at squared distance distSq: skipped, or each entered in
\* the other's list
NeighborPairAt(table, radiusSq, i, j, distSq) ==
  IF Gt(distSq, radiusSq) THEN table
  ELSE [[table EXCEPT ![i] = insertNeighbor(@, NeighborRef(j, distSq))]
          EXCEPT ![j] = insertNeighbor(@, NeighborRef(i, distSq))]

\* the body of the inner loop of buildNeighborTable for the pair (i, j)
NeighborPair(table, agents, radiusSq, i, j) ==
  NeighborPairAt(table, radiusSq, i, j,
                 absSq(sub(agents[i].position, agents[j].position)))

\* the loops of buildNeighborTable from the pair (i, j) on
RECURSIVE NeighborLoop(_, _, _, _, _)
NeighborLoop(table, agents, radiusSq, i, j) ==
  IF i > Len(agents) THEN table
  ELSE IF j > Len(agents) THEN NeighborLoop(table, agents, radiusSq, i + 1, i + 2)
  ELSE NeighborLoop(NeighborPair(table, agents, radiusSq, i, j),
                    agents, radiusSq, i, j + 1)

buildNeighborTable(agents, radiusSq) ==
  NeighborLoop([k \in 1..Len(agents) |-> << >>], agents, radiusSq, 1, 2)

\* ------------------------------------------------------------------------
\* RVOModel: the ORCA constraint of agent against other
\* ------------------------------------------------------------------------

OrcaLine(point, direction) == [point |-> point, direction |-> direction]

\* the cap of the truncated cone (and the colliding case): direction and u
\* from the unit vector along w
appendAgentConstraint_capFrom(unitW, combinedRadius, wLength, inv) ==
  [direction |-> perp(unitW),
   u |-> mult(unitW, Minus(Times(combinedRadius, inv), wLength))]

\* ... with inverse horizon inv and |w| = wLength
appendAgentConstraint_cap(relativePosition, combinedRadius, w, wLength, inv) ==
  appendAgentConstraint_capFrom(
    IF Gt(wLength, EPSILON)
      THEN mult(w, Over(Num(1), wLength))
      ELSE normalize(relativePosition),
    combinedRadius, wLength, inv)

\* the leg of the cone on the side of w, before it is normalised
appendAgentConstraint_legRaw(relativePosition, combinedRadius, distSq, w, leg) ==
  IF Gt(det(relativePosition, w), Zero)
    THEN mult(Vector2(Minus(Times(relativePosition.x, leg),
                            Times(relativePosition.y, combinedRadius)),
                      Plus(Times(relativePosition.x, combinedRadius),
                           Times(relativePosition.y, leg))),
              Over(Num(1), distSq))
    ELSE mult(Vector2(Minus(Times(Neg(relativePosition.x), leg),
                            Times(relativePosition.y, combinedRadius)),
                      Minus(Times(relativePosition.x, combinedRadius),
                            Times(relativePosition.y, leg))),
              Over(Num(1), distSq))

\* direction and u on a leg of direction direction
appendAgentConstraint_legFrom(relativeVelocity, direction) ==
  [direction |-> direction,
   u |-> sub(mult(direction, dot(relativeVelocity, direction)), relativeVelocity)]

\* the agents apart: the cap or a leg, by where w lies
appendAgentConstraint_project(relativePosition, relativeVelocity, combinedRadius, distSq, combinedRadiusSq, w, wLengthSq, dotProduct, invTimeHorizon) ==
  IF Lt(dotProduct, Zero)
     /\ Gt(Times(dotProduct, dotProduct), Times(combinedRadiusSq, wLengthSq))
    THEN appendAgentConstraint_cap(relativePosition, combinedRadius, w,
                                   Sqrt(wLengthSq), invTimeHorizon)
    ELSE appendAgentConstraint_legFrom(
           relativeVelocity,
           normalize(appendAgentConstraint_legRaw(
             relativePosition, combinedRadius, distSq, w,
             Sqrt(MathMax(Zero, Minus(distSq, combinedRadiusSq))))))

\* the agents apart, with w the relative velocity seen from the cap's centre
appendAgentConstraint_apart(relativePosition, relativeVelocity, combinedRadius, distSq, combinedRadiusSq, w, invTimeHorizon) ==
  appendAgentConstraint_project(relativePosition, relativeVelocity, combinedRadius,
                                distSq, combinedRadiusSq, w, absSq(w),
                                dot(w, relativePosition), invTimeHorizon)

\* the agents overlapping, with w taken over one time step
appendAgentConstraint_collidingFrom(relativePosition, combinedRadius, w, invTimeStep) ==
  appendAgentConstraint_cap(relativePosition, combinedRadius, w,
                            Hypot(w.x, w.y), invTimeStep)

appendAgentConstraint_colliding(relativePosition, relativeVelocity, combinedRadius, invTimeStep) ==
  appendAgentConstraint_collidingFrom(
    relativePosition, combinedRadius,
    sub(relativeVelocity, mult(relativePosition, invTimeStep)), invTimeStep)

\* direction and u of the constraint, by whether the agents overlap
appendAgentConstraint_regime(relativePosition, relativeVelocity, combinedRadius, distSq, combinedRadiusSq, invTimeHorizon, dt) ==
  IF Gt(distSq, combinedRadiusSq)
    THEN appendAgentConstraint_apart(
           relativePosition, relativeVelocity, combinedRadius, distSq,
           combinedRadiusSq,
           sub(relativeVelocity, mult(relativePosition, invTimeHorizon)),
           invTimeHorizon)
    ELSE appendAgentConstraint_colliding(
           relativePosition, relativeVelocity, combinedRadius,
           IF Gt(dt, Zero) THEN Over(Num(1), dt) ELSE Zero)

appendAgentConstraint_relative(relativePosition, relativeVelocity, combinedRadius, invTimeHorizon, dt) ==
  appendAgentConstraint_regime(relativePosition, relativeVelocity, combinedRadius,
                               absSq(relativePosition),
                               Times(combinedRadius, combinedRadius),
                               invTimeHorizon, dt)

\* lines.push({ point: velocity + u / 2, direction })
appendAgentConstraint_line(agent, du) ==
  OrcaLine(add(agent.velocity, mult(du.u, Rat(5, 10))),
           ensureDirection(du.direction))

appendAgentConstraint(agent, other, invTimeHorizon, dt) ==
  appendAgentConstraint_line(
    agent,
    appendAgentConstraint_relative(sub(other.position, agent.position),
                                   sub(agent.velocity, other.velocity),
                                   Plus(agent.radius, other.radius),
                                   invTimeHorizon, dt))

\* ------------------------------------------------------------------------
\* RVOModel: the incremental linear program.  lines is a sequence (from 1);
\* lineNo, lineFail and beginLine keep the source's numbering from 0, so
\* line number n of the source is lines[n + 1].
\* ------------------------------------------------------------------------

RECURSIVE LP1Loop(_, _, _, _, _)

\* the interval clipped by line number i: empty, or on to the next line
LP1Clipped(lines, lineNo, i, tLeft, tRight) ==
  IF Gt(tLeft, tRight)
    THEN [feasible |-> FALSE, tLeft |-> tLeft, tRight |-> tRight]
    ELSE LP1Loop(lines, lineNo, i + 1, tLeft, tRight)

\* line number i crossing line lineNo at parameter t
LP1Clip(lines, lineNo, i, tLeft, tRight, denominator, t) ==
  LP1Clipped(lines, lineNo, i,
             IF Ge(denominator, Zero) THEN tLeft ELSE MathMax(tLeft, t),
             IF Ge(denominator, Zero) THEN MathMin(tRight, t) ELSE tRight)

\* the body of the loop for line number i
LP1Step(lines, lineNo, i, tLeft, tRight, denominator, numerator) ==
  IF Le(MathAbs(denominator), EPSILON)
    THEN IF Lt(numerator, Zero)
           THEN [feasible |-> FALSE, tLeft |-> tLeft, tRight |-> tRight]
           ELSE LP1Loop(lines, lineNo, i + 1, tLeft, tRight)
    ELSE LP1Clip(lines, lineNo, i, tLeft, tRight, denominator,
                 Over(numerator, denominator))

\* the loop of linearProgram1 over the earlier lines, from line number i on
LP1Loop(lines, lineNo, i, tLeft, tRight) ==
  IF i >= lineNo THEN [feasible |-> TRUE, tLeft |-> tLeft, tRight |-> tRight]
  ELSE LP1Step(lines, lineNo, i, tLeft, tRight,
               det(lines[lineNo + 1].direction, lines[i + 1].direction),
               det(lines[i + 1].direction,
                   sub(lines[lineNo + 1].point, lines[i + 1].point)))

\* LP1Clamp leaving t as it is
LP1Clamp_Free(t, tLeft, tRight) == t

\* t clamped to [tLeft, tRight]
LP1Clamp(t, tLeft, tRight) ==
  IF Lt(t, tLeft) THEN tLeft
  ELSE IF Gt(t, tRight) THEN tRight
  ELSE t

\* LP1Optimum optimising the direction whatever directionOpt says
LP1Optimum_Direction(line, optVelocity, directionOpt, tLeft, tRight) ==
  IF Gt(dot(optVelocity, line.direction), Zero) THEN tRight ELSE tLeft

\* the parameter of the optimum on the line within [tLeft, tRight]
LP1Optimum(line, optVelocity, directionOpt, tLeft, tRight) ==
  IF directionOpt
    THEN IF Gt(dot(optVelocity, line.direction), Zero) THEN tRight ELSE tLeft
    ELSE LP1Clamp(dot(line.direction, sub(optVelocity, line.point)),
                  tLeft, tRight)

\* LP1Finish writing the end of the interval into result before failing
LP1Finish_Clobber(line, optVelocity, directionOpt, result, loop) ==
  [success |-> loop.feasible,
   result |-> add(line.point,
                  mult(line.direction,
                       LP1Optimum(line, optVelocity, directionOpt,
                                  loop.tLeft, loop.tRight)))]

\* the outcome of linearProgram1 once its loop has run
LP1Finish(line, optVelocity, directionOpt, result, loop) ==
  IF ~loop.feasible THEN [success |-> FALSE, result |-> result]
  ELSE [success |-> TRUE,
        result |-> add(line.point,
                       mult(line.direction,
                            LP1Optimum(line, optVelocity, directionOpt,
                                       loop.tLeft, loop.tRight)))]

\* LP1Within taking the interval around the point of the line
LP1Within_Centered(lines, lineNo, optVelocity, directionOpt, result, dotProduct, sqrtDisc) ==
  LP1Finish(lines[lineNo + 1], optVelocity, directionOpt, result,
            LP1Loop(lines, lineNo, 0, Neg(sqrtDisc), sqrtDisc))

\* linearProgram1 on a line that meets the disc
LP1Within(lines, lineNo, optVelocity, directionOpt, result, dotProduct, sqrtDisc) ==
  LP1Finish(lines[lineNo + 1], optVelocity, directionOpt, result,
            LP1Loop(lines, lineNo, 0,
                    Minus(Neg(dotProduct), sqrtDisc),
                    Plus(Neg(dotProduct), sqrtDisc)))

LP1Discriminant(lines, lineNo, optVelocity, directionOpt, result, dotProduct, discriminant) ==
  IF Lt(discriminant, Zero) THEN [success |-> FALSE, result |-> result]
  ELSE LP1Within(lines, lineNo, optVelocity, directionOpt, result, dotProduct,
                 Sqrt(discriminant))

LP1Dot(lines, lineNo, radius, optVelocity, directionOpt, result, dotProduct) ==
  LP1Discriminant(lines, lineNo, optVelocity, directionOpt, result, dotProduct,
                  Minus(Plus(Times(dotProduct, dotProduct), Times(radius, radius)),
                        absSq(lines[lineNo + 1].point)))

linearProgram1(lines, lineNo, radius, optVelocity, directionOpt, result) ==
  LP1Dot(lines, lineNo, radius, optVelocity, directionOpt, result,
         dot(lines[lineNo + 1].point, lines[lineNo + 1].direction))

RECURSIVE LP2Loop(_, _, _, _, _, _)

\* line number i violated: fail with the result as it was, or go on from
\* what linearProgram1 found
LP2Solved(lines, radius, optVelocity, directionOpt, i, tempResult, solved) ==
  IF ~solved.success
    THEN [lineFail |-> i, result |-> tempResult]
    ELSE LP2Loop(lines, radius, optVelocity, directionOpt, i + 1, solved.result)

\* the loop of linearProgram2 from line number i on
LP2Loop(lines, radius, optVelocity, directionOpt, i, result) ==
  IF i >= Len(lines) THEN [lineFail |-> Len(lines), result |-> result]
  ELSE IF Gt(det(lines[i + 1].direction, sub(lines[i + 1].point, result)), Zero)
    THEN LP2Solved(lines, radius, optVelocity, directionOpt, i, result,
                   linearProgram1(lines, i, radius, optVelocity, directionOpt,
                                  result))
    ELSE LP2Loop(lines, radius, optVelocity, directionOpt, i + 1, result)

linearProgram2(lines, radius, optVelocity, directionOpt) ==
  LP2Loop(lines, radius, optVelocity, directionOpt, 0,
          IF directionOpt THEN mult(optVelocity, radius)
          ELSE IF Gt(absSq(optVelocity), Times(radius, radius))
            THEN mult(normalize(optVelocity), radius)
          ELSE optVelocity)

\* the constraint other seen from along line
ProjLine(line, other, determinant) ==
  OrcaLine(IF Le(MathAbs(determinant), EPSILON)
             THEN mult(add(line.point, other.point), Rat(5, 10))
             ELSE add(line.point,
                      mult(line.direction,
                           Over(det(other.direction,
                                    sub(line.point, other.point)),
                                determinant))),
           normalize(sub(other.direction, line.direction)))

RECURSIVE ProjLoop(_, _, _, _)

\* ProjStep reducing every earlier line, parallel ones alike
ProjStep_Keep(lines, i, j, projLines, determinant) ==
  ProjLoop(lines, i, j + 1,
           Append(projLines, ProjLine(lines[i + 1], lines[j + 1], determinant)))

\* the body of the loop for line number j
ProjStep(lines, i, j, projLines, determinant) ==
  IF Le(MathAbs(determinant), EPSILON)
     /\ Gt(dot(lines[i + 1].direction, lines[j + 1].direction), Zero)
    THEN ProjLoop(lines, i, j + 1, projLines)
    ELSE ProjLoop(lines, i, j + 1,
                  Append(projLines,
                         ProjLine(lines[i + 1], lines[j + 1], determinant)))

\* the reduced constraints of linearProgram3 for line number i: lines
\* numObstLines..i-1 intersected with line i, from line number j on
ProjLoop(lines, i, j, projLines) ==
  IF j >= i THEN projLines
  ELSE ProjStep(lines, i, j, projLines,
                det(lines[i + 1].direction, lines[j + 1].direction))

\* linearProgram2 on the reduced constraints
LP3Solve(projLines, radius, optVelocity) ==
  [projLines |-> projLines,
   lp2 |-> linearProgram2(projLines, radius, optVelocity, TRUE)]

\* LP3Inner solving over lines 0..i as they are, not reduced along line i
LP3Inner_Unprojected(lines, numObstLines, i, radius) ==
  LP3Solve(SubSeq(lines, 1, i + 1), radius, perp(lines[i + 1].direction))

\* the inner solve of linearProgram3 for line number i
LP3Inner(lines, numObstLines, i, radius) ==
  LP3Solve(ProjLoop(lines, i, numObstLines, SubSeq(lines, 1, numObstLines)),
           radius, perp(lines[i + 1].direction))

\* the result after the inner solve: restored when it failed
LP3Result(tempResult, inner) ==
  IF inner.lp2.lineFail < Len(inner.projLines)
    THEN tempResult
    ELSE inner.lp2.result

RECURSIVE LP3Loop(_, _, _, _, _, _)

\* on to the next line, with the distance of result from line number i
LP3Advance(lines, numObstLines, radius, i, result) ==
  LP3Loop(lines, numObstLines, radius, i + 1, result,
          det(lines[i + 1].direction, sub(lines[i + 1].point, result)))

\* the loop of linearProgram3 from line number i on
LP3Loop(lines, numObstLines, radius, i, result, distance) ==
  IF i >= Len(lines) THEN result
  ELSE IF Gt(det(lines[i + 1].direction, sub(lines[i + 1].point, result)),
             distance)
    THEN LP3Advance(lines, numObstLines, radius, i,
                    LP3Result(result, LP3Inner(lines, numObstLines, i, radius)))
    ELSE LP3Loop(lines, numObstLines, radius, i + 1, result, distance)

RECURSIVE LP3RestoredLoop(_, _, _, _, _, _, _)

\* the line numbers where the inner solve failed, after line number i
LP3RestoredAdvance(lines, numObstLines, radius, i, result, restored) ==
  LP3RestoredLoop(lines, numObstLines, radius, i + 1, result,
                  det(lines[i + 1].direction, sub(lines[i + 1].point, result)),
                  restored)

\* line number i with its inner solve: restored is joined by i when
\* lp2.lineFail < projLines.length
LP3RestoredStep(lines, numObstLines, radius, i, result, restored, inner) ==
  LP3RestoredAdvance(lines, numObstLines, radius, i, LP3Result(result, inner),
                     IF inner.lp2.lineFail < Len(inner.projLines)
                       THEN restored \cup {i} ELSE restored)

\* the loop of linearProgram3 from line number i on, collecting the line
\* numbers where it put the previous result back
LP3RestoredLoop(lines, numObstLines, radius, i, result, distance, restored) ==
  IF i >= Len(lines) THEN restored
  ELSE IF Gt(det(lines[i + 1].direction, sub(lines[i + 1].point, result)),
             distance)
    THEN LP3RestoredStep(lines, numObstLines, radius, i, result, restored,
                         LP3Inner(lines, numObstLines, i, radius))
    ELSE LP3RestoredLoop(lines, numObstLines, radius, i + 1, result, distance,
                         restored)

\* the line numbers where linearProgram3 takes the branch result = tempResult
LP3Restored(lines, numObstLines, beginLine, radius, initialResult) ==
  LP3RestoredLoop(lines, numObstLines, radius, beginLine, initialResult, Zero, {})

linearProgram3(lines, numObstLines, beginLine, radius, initialResult) ==
  LP3Loop(lines, numObstLines, radius, beginLine, initialResult, Zero)

\* ------------------------------------------------------------------------
\* RVOModel: goals, scenario and the tick
\* ------------------------------------------------------------------------

\* computePreferredVelocity without its guard for a goal already reached
computePreferredVelocity_Unguarded(agent) ==
  LET target == agent.anchors[agent.headingIndex + 1]
      toGoal == sub(target, agent.position)
      distance == mag(toGoal)
  IN  limit(mult(mult(toGoal, Over(Num(1), distance)), agent.preferredSpeed),
            agent.maxSpeed)

computePreferredVelocity(agent) ==
  LET target == agent.anchors[agent.headingIndex + 1]
      toGoal == sub(target, agent.position)
      distance == mag(toGoal)
  IN  IF Lt(distance, Num(1)) THEN zero
      ELSE limit(mult(mult(toGoal, Over(Num(1), distance)), agent.preferredSpeed),
                 agent.maxSpeed)

\* swapGoalIfNeeded run again on its own outcome
swapGoalIfNeeded_Twice(agent) ==
  LET target == agent.anchors[agent.headingIndex + 1]
      other == agent.anchors[2 - agent.headingIndex]
      reach == MathMax(Times(agent.radius, Rat(8, 10)), Num(6))
  IN  IF Lt(dist(agent.position, target), reach)
           /\ ~Lt(dist(agent.position, other), reach)
        THEN [agent EXCEPT !.headingIndex = IF agent.headingIndex = 0 THEN 1 ELSE 0]
        ELSE agent

swapGoalIfNeeded(agent) ==
  LET target == agent.anchors[agent.headingIndex + 1]
  IN  IF Lt(dist(agent.position, target),
            MathMax(Times(agent.radius, Rat(8, 10)), Num(6)))
        THEN [agent EXCEPT !.headingIndex = IF agent.headingIndex = 0 THEN 1 ELSE 0]
        ELSE agent

\* the agent of index i between its two anchors
CircleAgent(i, anchorA, anchorB, agentRadius, preferredSpeed) ==
  [id |-> i,
   position |-> anchorA,
   velocity |-> zero,
   preferredVelocity |-> zero,
   radius |-> agentRadius,
   preferredSpeed |-> preferredSpeed,
   maxSpeed |-> Times(preferredSpeed, Rat(125, 100)),
   anchors |-> << anchorA, anchorB >>,
   headingIndex |-> 1,
   color |-> 180 + i * 5]

\* the agent of index i on the circle in direction dir from the center
CircleAgentAlong(i, center, radius, dir, agentRadius, preferredSpeed) ==
  CircleAgent(i, add(center, mult(dir, radius)),
              add(center, mult(mult(dir, Num(-1)), radius)),
              agentRadius, preferredSpeed)

\* the agent of index i at the given angle; rnd is what Math.random() returns
CircleAgentAt(i, center, radius, angle, rnd) ==
  CircleAgentAlong(i, center, radius, Vector2(MathCos(angle), MathSin(angle)),
                   Times(agentRadiusMeters, Num(pixelsPerMeter)),
                   Times(Plus(Rat(12, 10), Times(rnd, Rat(6, 10))),
                         Num(pixelsPerMeter)))

\* createCircleScenario for an arena width x height, with count agents and
\* random[i] the value Math.random() returns for agent i
createCircleScenario(w, h, count, random) ==
  IF w = Zero \/ h = Zero THEN << >>
  ELSE [k \in 1..count |->
          CircleAgentAt(k - 1,
                        Vector2(Over(w, Num(2)), Over(h, Num(2))),
                        Times(MathMin(w, h), Rat(35, 100)),
                        Times(Times(Over(Num(k - 1), Num(count)), MathPI), Num(2)),
                        random[k - 1])]

\* this.params.name ?? fallback
Param(p, name, fallback) == IF name \in DOMAIN p THEN p[name] ELSE fallback

\* the constraints of agents[index] against its neighbours, in list order
AgentLines(agents, neighbors, index, invTimeHorizon, dt) ==
  [n \in 1..Len(neighbors) |->
     appendAgentConstraint(agents[index], agents[neighbors[n].index],
                           invTimeHorizon, dt)]

\* the velocity returned once linearProgram2 has run: its result, or
\* linearProgram3's when it failed on a line
SolvedVelocity(agent, lines, solved) ==
  limit(IF solved.lineFail < Len(lines)
          THEN linearProgram3(lines, 0, solved.lineFail, agent.maxSpeed,
                              solved.result)
          ELSE solved.result,
        agent.maxSpeed)

\* the velocity of agent under the constraints lines
SolveVelocity(agent, lines, preferred) ==
  SolvedVelocity(agent, lines,
                 linearProgram2(lines, agent.maxSpeed, preferred, FALSE))

\* the callback of this.agents.map in update: the new velocity of agents[index]
NewVelocity(agents, neighborTable, index, invTimeHorizon, dt) ==
  SolveVelocity(agents[index],
                AgentLines(agents, neighborTable[index], index, invTimeHorizon, dt),
                computePreferredVelocity(agents[index]))

\* Integrate adding the new velocity to the stored one
Integrate_Accumulate(agent, velocity, dt) ==
  [agent EXCEPT !.velocity = add(agent.velocity, velocity),
                !.position = add(agent.position, mult(velocity, dt))]

\* the second forEach of update: velocity and position of one agent
Integrate(agent, velocity, dt) ==
  [agent EXCEPT !.velocity = velocity,
                !.position = add(agent.position, mult(velocity, dt))]

\* ReturnsEarly comparing with < instead of <=
ReturnsEarly_Strict(agents, deltaTime) ==
  Lt(deltaTime, Zero) \/ Len(agents) = 0

\* the guard of update: deltaTime <= 0 || this.agents.length === 0
ReturnsEarly(agents, deltaTime) ==
  Le(deltaTime, Zero) \/ Len(agents) = 0

\* TickDt without the clamp
TickDt_Unclamped(deltaTime) == deltaTime

\* the locals update computes before its loops
TickDt(deltaTime) == MathMin(deltaTime, Rat(5, 100))
TickNeighborRadiusSq(p) ==
  LET prefNeighborRadius ==
        Times(Param(p, "neighborRadius", DEFAULTS_neighborRadius),
              Num(pixelsPerMeter))
  IN  Times(prefNeighborRadius, prefNeighborRadius)
TickInvTimeHorizon(p) ==
  LET timeHorizon == MathMax(Param(p, "timeHorizon", DEFAULTS_timeHorizon),
                             Rat(2, 10))
  IN  Over(Num(1), timeHorizon)

\* SwapGoals left out of the tick
SwapGoals_Skipped(agents) == agents

\* this.agents.forEach((agent) => this.swapGoalIfNeeded(agent))
SwapGoals(agents) == [k \in 1..Len(agents) |-> swapGoalIfNeeded(agents[k])]

\* the agents after the first k callbacks of this.agents.map in update
RECURSIVE MapPrefix(_, _)
MapPrefix(agents, k) ==
  IF k = 0 THEN agents
  ELSE LET done == MapPrefix(agents, k - 1)
       IN  [done EXCEPT ![k].preferredVelocity = computePreferredVelocity(done[k])]

\* RVOModel.update as one function: the agents after update(deltaTime)
update(agents, p, deltaTime) ==
  IF ReturnsEarly(agents, deltaTime) THEN agents
  ELSE LET dt == TickDt(deltaTime)
           swapped == SwapGoals(agents)
           neighborTable == buildNeighborTable(swapped, TickNeighborRadiusSq(p))
           newVelocities ==
             [k \in 1..Len(agents) |->
                NewVelocity(MapPrefix(swapped, k), neighborTable, k,
                            TickInvTimeHorizon(p), dt)]
           mapped == MapPrefix(swapped, Len(agents))
       IN  [k \in 1..Len(agents) |-> Integrate(mapped[k], newVelocities[k], dt)]

\* ------------------------------------------------------------------------
\* The engine as a state machine.  A tick is a sequence of steps: the entry
\* of update (goal swaps, neighbour table), one step per callback of
\* this.agents.map, and the forEach that applies the buffered velocities.
\* The host serialises its calls, so no call starts while a tick runs.
\* ------------------------------------------------------------------------

VARIABLES
  agentCount,   \* DEFAULTS.agentCount
  width,        \* SimulationModel.width
  height,       \* SimulationModel.height
  params,       \* SimulationModel.params
  agents,       \* RVOModel.agents
  pc,           \* "idle", or "map" while update runs its loops
  tick,         \* the locals of the update in progress
  ticks,        \* ticks run since the scenario was seeded
  call,         \* the last call the host made; for update, the agents it found
  probe         \* the function under study and its progress, outside the engine's run

vars == << agentCount, width, height, params, agents, pc, tick, ticks, call, probe >>

MaxAgentCount == 3
MaxTicks == 2

\* arena sizes the host passes to resize
Arenas ==
  { << Zero, Zero >>, << Num(10), Num(10) >>, << Num(50), Num(50) >>,
    << Num(120), Num(90) >> }

\* the values Math.random() returns while a scenario is seeded, per agent
RandomStreams ==
  { [i \in 0..MaxAgentCount |-> Zero],
    [i \in 0..MaxAgentCount |-> IF i % 2 = 0 THEN Rat(9, 10) ELSE Rat(1, 10)] }

\* elapsed times the host passes to update
DeltaTimes == { Neg(Rat(1, 100)), Zero, Rat(2, 100), Rat(1, 10) }

\* overrides the host passes to configure
Overrides ==
  { [n \in {"neighborRadius"} |-> Rat(1, 2)],
    [n \in {"timeHorizon"} |-> Rat(1, 10)] }

NoTick == [dt |-> Zero, invTimeHorizon |-> Zero, neighborTable |-> << >>,
           newVelocities |-> << >>]
NoCall == [op |-> "new", deltaTime |-> Zero, before |-> << >>]
NoProbe == [op |-> "none"]

Init ==
  /\ agentCount \in 1..MaxAgentCount
  /\ width = Zero
  /\ height = Zero
  /\ params = << >>
  /\ agents = << >>
  /\ pc = "idle"
  /\ tick = NoTick
  /\ ticks = 0
  /\ call = NoCall
  /\ probe = NoProbe

\* SimulationModel.resize, with RVOModel.onResize
Resize(w, h, random) ==
  /\ pc = "idle"
  /\ width' = w
  /\ height' = h
  /\ agents' = createCircleScenario(w, h, agentCount, random)
  /\ ticks' = 0
  /\ call' = [op |-> "resize", deltaTime |-> Zero, before |-> << >>]
  /\ UNCHANGED << probe, agentCount, params, pc, tick >>

\* RVOModel.reset
Reset(random) ==
  /\ pc = "idle"
  /\ agents' = createCircleScenario(width, height, agentCount, random)
  /\ ticks' = 0
  /\ call' = [op |-> "reset", deltaTime |-> Zero, before |-> << >>]
  /\ UNCHANGED << probe, agentCount, width, height, params, pc, tick >>

\* configure putting nextParams in the place of the parameters
Configure_Replace(nextParams) ==
  /\ pc = "idle"
  /\ params' = nextParams
  /\ call' = [op |-> "configure", deltaTime |-> Zero, before |-> << >>]
  /\ UNCHANGED << probe, agentCount, width, height, agents, pc, tick, ticks >>

\* SimulationModel.configure
Configure(nextParams) ==
  /\ pc = "idle"
  /\ params' = [n \in DOMAIN params \cup DOMAIN nextParams |->
                  IF n \in DOMAIN nextParams THEN nextParams[n] ELSE params[n]]
  /\ call' = [op |-> "configure", deltaTime |-> Zero, before |-> << >>]
  /\ UNCHANGED << probe, agentCount, width, height, agents, pc, tick, ticks >>

\* update(deltaTime) returning at once
UpdateNoOp(deltaTime) ==
  /\ pc = "idle"
  /\ ReturnsEarly(agents, deltaTime)
  /\ call' = [op |-> "update", deltaTime |-> deltaTime, before |-> agents]
  /\ UNCHANGED << probe, agentCount, width, height, params, agents, pc, tick, ticks >>

\* update(deltaTime) up to the map loop
UpdateBegin(deltaTime) ==
  /\ pc = "idle"
  /\ ~ReturnsEarly(agents, deltaTime)
  /\ ticks < MaxTicks
  /\ LET swapped == SwapGoals(agents)
     IN  /\ agents' = swapped
         /\ tick' = [dt |-> TickDt(deltaTime),
                     invTimeHorizon |-> TickInvTimeHorizon(params),
                     neighborTable |->
                       buildNeighborTable(swapped, TickNeighborRadiusSq(params)),
                     newVelocities |-> << >>]
  /\ pc' = "map"
  /\ ticks' = ticks + 1
  /\ call' = [op |-> "update", deltaTime |-> deltaTime, before |-> agents]
  /\ UNCHANGED << probe, agentCount, width, height, params >>

\* UpdateMap writing the new velocity and position at once
UpdateMap_InPlace ==
  /\ pc = "map"
  /\ Len(tick.newVelocities) < Len(agents)
  /\ LET index == Len(tick.newVelocities) + 1
         velocity == NewVelocity(agents, tick.neighborTable, index,
                                 tick.invTimeHorizon, tick.dt)
     IN  /\ agents' = [agents EXCEPT ![index] =
                         Integrate([@ EXCEPT !.preferredVelocity =
                                      computePreferredVelocity(agents[index])],
                                   velocity, tick.dt)]
         /\ tick' = [tick EXCEPT !.newVelocities = Append(@, velocity)]
  /\ UNCHANGED << probe, agentCount, width, height, params, pc, ticks, call >>

\* one callback of this.agents.map
UpdateMap ==
  /\ pc = "map"
  /\ Len(tick.newVelocities) < Len(agents)
  /\ LET index == Len(tick.newVelocities) + 1
     IN  /\ agents' = [agents EXCEPT ![index].preferredVelocity =
                         computePreferredVelocity(agents[index])]
         /\ tick' = [tick EXCEPT !.newVelocities =
                       Append(@, NewVelocity(agents, tick.neighborTable, index,
                                             tick.invTimeHorizon, tick.dt))]
  /\ UNCHANGED << probe, agentCount, width, height, params, pc, ticks, call >>

\* this.agents.forEach applying the new velocities, and the return of update
UpdateApply ==
  /\ pc = "map"
  /\ Len(tick.newVelocities) = Len(agents)
  /\ agents' = [k \in 1..Len(agents) |->
                  Integrate(agents[k], tick.newVelocities[k], tick.dt)]
  /\ pc' = "idle"
  /\ tick' = NoTick
  /\ UNCHANGED << probe, agentCount, width, height, params, ticks, call >>

Next ==
  \/ \E a \in Arenas, random \in RandomStreams : Resize(a[1], a[2], random)
  \/ \E random \in RandomStreams : Reset(random)
  \/ \E nextParams \in Overrides : Configure(nextParams)
  \/ \E deltaTime \in DeltaTimes : UpdateNoOp(deltaTime)
  \/ \E deltaTime \in DeltaTimes : UpdateBegin(deltaTime)
  \/ UpdateMap
  \/ UpdateApply

Spec == Init /\ [][Next]_vars

\* ------------------------------------------------------------------------
\* Properties
\* ------------------------------------------------------------------------

\* the last call was an update that ran a tick, and the tick is over
TickDone ==
  /\ pc = "idle"
  /\ call.op = "update"
  /\ Gt(call.deltaTime, Zero)
  /\ Len(call.before) > 0

\* what linearProgram2 returned for agent k in the tick that update(deltaTime)
\* ran on the agents before
TickSolved(before, p, deltaTime, k) ==
  LET swapped == MapPrefix(SwapGoals(before), k)
      neighborTable == buildNeighborTable(swapped, TickNeighborRadiusSq(p))
      lines == AgentLines(swapped, neighborTable[k], k, TickInvTimeHorizon(p),
                          TickDt(deltaTime))
      solved == linearProgram2(lines, swapped[k].maxSpeed,
                               computePreferredVelocity(swapped[k]), FALSE)
  IN  [lines |-> lines, solved |-> solved]

\* agent k's constraints were jointly infeasible in the last tick
FellBack(k) ==
  LET s == TickSolved(call.before, params, call.deltaTime, k)
  IN  s.solved.lineFail < Len(s.lines)

\* tolerance of speed comparisons, relative to the speed
SpeedTolerance == Rat(1, 1000)

\* C1: after an update with elapsed > 0 every agent's stored velocity has
\* magnitude at most its maxSpeed, within the tolerance, whether
\* linearProgram2 solved its constraints or linearProgram3 supplied it
C1_VelocityWithinMaxSpeed ==
  TickDone =>
    \A k \in 1..Len(agents) :
      Le(mag(agents[k].velocity),
         Times(agents[k].maxSpeed, Plus(Num(1), SpeedTolerance)))

\* a tick gave one agent a fallback velocity of full speed and another
\* agent a velocity from the full solve of a non-empty constraint set
C1_Witness ==
  /\ TickDone
  /\ \E k \in 1..Len(agents) :
       /\ FellBack(k)
       /\ Ge(mag(agents[k].velocity),
             Times(agents[k].maxSpeed, Minus(Num(1), SpeedTolerance)))
  /\ \E k \in 1..Len(agents) :
       /\ ~FellBack(k)
       /\ Len(TickSolved(call.before, params, call.deltaTime, k).lines) > 0
       /\ agents[k].velocity # zero

\* tolerance of separation comparisons, in pixels
SeparationTolerance == Rat(1, 10)

\* C2: two agents seeded apart with swapped anchors never come closer than
\* the sum of their radii, within the tolerance
C2_HeadOnNeverOverlaps ==
  (/\ Len(agents) = 2
   /\ Gt(dist(agents[1].anchors[1], agents[2].anchors[1]),
         Plus(agents[1].radius, agents[2].radius)))
    => Ge(dist(agents[1].position, agents[2].position),
          Minus(Plus(agents[1].radius, agents[2].radius), SeparationTolerance))

\* C3: a tick gives every agent exactly one new velocity, a finite one, also
\* when the agent's constraints are jointly infeasible
C3_TickIsTotal ==
  /\ pc = "map" =>
       /\ Len(tick.newVelocities) <= Len(agents)
       /\ \A k \in 1..Len(tick.newVelocities) : ~VecIsNaN(tick.newVelocities[k])
  /\ TickDone =>
       /\ Len(agents) = Len(call.before)
       /\ \A k \in 1..Len(agents) :
            ~VecIsNaN(agents[k].velocity) /\ ~VecIsNaN(agents[k].position)

\* a tick is over in which linearProgram2 failed for an agent with two
\* constraints and linearProgram3 supplied its velocity
C3_Witness ==
  /\ TickDone
  /\ \E k \in 1..Len(agents) :
       /\ FellBack(k)
       /\ Len(TickSolved(call.before, params, call.deltaTime, k).lines) > 1

\* C4: update(elapsed) with elapsed <= 0, or on an empty collection, leaves
\* the agent collection as it found it
C4_NoOpUpdateChangesNothing ==
  (/\ pc = "idle"
   /\ call.op = "update"
   /\ Le(call.deltaTime, Zero) \/ Len(call.before) = 0)
    => agents = call.before

\* update(0) returned on agents that an earlier tick had set in motion
C4_Witness ==
  /\ pc = "idle"
  /\ call.op = "update"
  /\ call.deltaTime = Zero
  /\ ticks > 0
  /\ \E k \in 1..Len(agents) : agents[k].velocity # zero

\* C5: a tick moves every agent by its new velocity times min(elapsed, 0.05)
C5_PositionIntegratesClampedStep ==
  TickDone =>
    \A k \in 1..Len(agents) :
      agents[k].position =
        add(call.before[k].position,
            mult(agents[k].velocity, MathMin(call.deltaTime, Rat(5, 100))))

\* a tick with elapsed above 0.05 moved an agent
C5_Witness ==
  /\ TickDone
  /\ Gt(call.deltaTime, Rat(5, 100))
  /\ \E k \in 1..Len(agents) : agents[k].position # call.before[k].position

\* C6: while the map loop of update fills the buffer, every agent still has
\* the position and velocity it had when update was called
C6_NoWriteBeforeAllComputed ==
  pc = "map" =>
    /\ Len(agents) = Len(call.before)
    /\ \A k \in 1..Len(agents) :
         /\ agents[k].position = call.before[k].position
         /\ agents[k].velocity = call.before[k].velocity

\* the buffer holds a new velocity for each of several moving agents and
\* none of them is stored yet
C6_Witness ==
  /\ pc = "map"
  /\ Len(agents) > 1
  /\ Len(tick.newVelocities) = Len(agents)
  /\ \A k \in 1..Len(agents) :
       /\ agents[k].velocity # zero
       /\ tick.newVelocities[k] # agents[k].velocity

\* ------------------------------------------------------------------------
\* buildNeighborTable on its own: a crowd is laid out, and the table is
\* built over it one pair of agents a step
\* ------------------------------------------------------------------------

MaxCrowd == 13

\* the unit of the layouts: a fifth of the neighbour radius under the
\* override neighborRadius = 1/2
CrowdUnit == Over(Times(Rat(1, 2), Num(pixelsPerMeter)), Num(5))

\* the lattice points at distance 5 from the origin
CirclePoints ==
  << << 5, 0 >>, << 4, 3 >>, << 3, 4 >>, << 0, 5 >>, << -3, 4 >>, << -4, 3 >>,
     << -5, 0 >>, << -4, -3 >>, << -3, -4 >>, << 0, -5 >>, << 3, -4 >>, << 4, -3 >> >>

Layouts == { "row", "star", "grid" }

\* the lattice cell of agent k in a layout
Cell(layout, k) ==
  CASE layout = "row"  -> << 5 * (k - 1), 0 >>
    [] layout = "star" ->
         IF k = 1 THEN << 0, 0 >>
         ELSE << CirclePoints[((k - 2) % 12) + 1][1] * (1 + (k - 2) \div 12),
                 CirclePoints[((k - 2) % 12) + 1][2] * (1 + (k - 2) \div 12) >>
    [] layout = "file" -> << 7 * (k - 1), 0 >>
    [] OTHER           -> << 2 * ((k - 1) % 4), 2 * ((k - 1) \div 4) >>

\* an agent at rest at position, with the radius and speeds of the scenario
AgentAt(k, position) ==
  CircleAgent(k - 1, position, position,
              Times(agentRadiusMeters, Num(pixelsPerMeter)),
              Times(Rat(12, 10), Num(pixelsPerMeter)))

\* n agents in a layout
Crowd(layout, n) ==
  [k \in 1..n |->
     AgentAt(k, Vector2(Times(Num(Cell(layout, k)[1]), CrowdUnit),
                        Times(Num(Cell(layout, k)[2]), CrowdUnit)))]

\* the squared neighbour radius by default and under the override
RadiiSq ==
  { TickNeighborRadiusSq(<< >>),
    TickNeighborRadiusSq([n \in {"neighborRadius"} |-> Rat(1, 2)]) }

NeighborsInit ==
  /\ agentCount \in 0..MaxCrowd
  /\ width = Zero
  /\ height = Zero
  /\ params = << >>
  /\ \E layout \in Layouts : agents = Crowd(layout, agentCount)
  /\ pc = "idle"
  /\ tick = NoTick
  /\ ticks = 0
  /\ call = NoCall
  /\ \E radiusSq \in RadiiSq :
       probe = [op |-> "neighbors", radiusSq |-> radiusSq, i |-> 1, j |-> 2,
                table |-> [k \in 1..agentCount |-> << >>]]

\* the loops of buildNeighborTable have run
NeighborsDone == probe.op = "neighbors" /\ probe.j > Len(agents)

\* one pass of the inner loop of buildNeighborTable, for the pair (i, j)
NeighborStep ==
  /\ probe.op = "neighbors"
  /\ probe.j <= Len(agents)
  /\ probe' = [probe EXCEPT
       !.table = NeighborPair(@, agents, probe.radiusSq, probe.i, probe.j),
       !.i = IF probe.j < Len(agents) THEN probe.i ELSE probe.i + 1,
       !.j = IF probe.j < Len(agents) THEN probe.j + 1 ELSE probe.i + 2]
  /\ UNCHANGED << agentCount, width, height, params, agents, pc, tick, ticks, call >>

NeighborsNext == NeighborStep

SpecNeighbors == NeighborsInit /\ [][NeighborsNext]_vars

\* the squared distance between agents k and o
DistSq(k, o) == absSq(sub(agents[k].position, agents[o].position))

\* the agents listed as neighbours of agent k
Listed(k) == { probe.table[k][n].index : n \in 1..Len(probe.table[k]) }

\* the other agents strictly within the radius of agent k
StrictlyWithin(k) ==
  { o \in (1..Len(agents)) \ {k} : Lt(DistSq(k, o), probe.radiusSq) }

\* C8: the finished table lists for every agent exactly the maxNeighbors
\* nearest other agents at squared distance strictly less than radiusSq (all
\* of them when fewer qualify); an agent at exactly radiusSq is not listed
C8_NearestStrictlyWithinRadius ==
  NeighborsDone =>
    \A k \in 1..Len(agents) :
      /\ Listed(k) \subseteq StrictlyWithin(k)
      /\ Cardinality(Listed(k)) = Len(probe.table[k])
      /\ Len(probe.table[k]) =
           IF Cardinality(StrictlyWithin(k)) > maxNeighbors
             THEN maxNeighbors ELSE Cardinality(StrictlyWithin(k))
      /\ \A a \in Listed(k) : \A b \in StrictlyWithin(k) \ Listed(k) :
           Le(DistSq(k, a), DistSq(k, b))

\* C9: every list of the table, also while the table is being built, is in
\* ascending order of squared distance, has at most maxNeighbors entries and
\* does not hold its owner's index; without agents the table is empty
C9_ListsSortedBoundedNoSelf ==
  probe.op = "neighbors" =>
    /\ Len(probe.table) = Len(agents)
    /\ \A k \in 1..Len(probe.table) :
         /\ Len(probe.table[k]) <= maxNeighbors
         /\ \A n \in 1..Len(probe.table[k]) : probe.table[k][n].index # k
         /\ \A n \in 1..(Len(probe.table[k]) - 1) :
              Le(probe.table[k][n].distSq, probe.table[k][n + 1].distSq)

\* the table is being built, and a full list has had an entry evicted and
\* holds entries at equal distance
C9_Witness ==
  /\ probe.op = "neighbors"
  /\ probe.i > 1
  /\ \E k \in 1..Len(probe.table) :
       /\ Len(probe.table[k]) = maxNeighbors
       /\ Cardinality({ o \in (1..probe.i - 1) \ {k} :
                          Le(DistSq(k, o), probe.radiusSq) }) > maxNeighbors
       /\ \E n \in 1..(maxNeighbors - 1) :
            probe.table[k][n].distSq = probe.table[k][n + 1].distSq

\* ------------------------------------------------------------------------
\* linearProgram2 on its own: a sequence of constraints is drawn and solved
\* ------------------------------------------------------------------------

MaxLines == 3

\* constraints to draw from: unit directions, as ensureDirection leaves them
LinePool ==
  << OrcaLine(Vector2(Zero, Num(1)), Vector2(Num(1), Zero)),
     OrcaLine(Vector2(Zero, Num(-1)), Vector2(Num(-1), Zero)),
     OrcaLine(Vector2(Num(1), Zero), Vector2(Zero, Num(-1))),
     OrcaLine(Vector2(Zero, Zero), Vector2(Rat(6, 10), Rat(8, 10))),
     OrcaLine(Vector2(Num(2), Num(2)), Vector2(Rat(-8, 10), Rat(6, 10))),
     OrcaLine(Vector2(Zero, Num(4)), Vector2(Num(1), Zero)) >>

\* the sequences of at most MaxLines constraints of the pool
LineSequences ==
  UNION { { [k \in 1..n |-> LinePool[f[k]]] : f \in [1..n -> 1..Len(LinePool)] } :
          n \in 0..MaxLines }

\* the optimisation targets: a velocity to come close to, or a direction
Targets ==
  { [optVelocity |-> zero, directionOpt |-> FALSE],
    [optVelocity |-> Vector2(Num(2), Num(1)), directionOpt |-> FALSE],
    [optVelocity |-> Vector2(Num(-3), Num(-4)), directionOpt |-> FALSE],
    [optVelocity |-> Vector2(Rat(6, 10), Rat(8, 10)), directionOpt |-> TRUE] }

\* the radii of the speed disc
Radii == { Num(1), Num(3) }

LPInit ==
  /\ agentCount = 0
  /\ width = Zero
  /\ height = Zero
  /\ params = << >>
  /\ agents = << >>
  /\ pc = "idle"
  /\ tick = NoTick
  /\ ticks = 0
  /\ call = NoCall
  /\ \E lines \in LineSequences, radius \in Radii, target \in Targets :
       probe = [op |-> "lp2", lines |-> lines, radius |-> radius,
                optVelocity |-> target.optVelocity,
                directionOpt |-> target.directionOpt,
                done |-> FALSE, solved |-> [lineFail |-> 0, result |-> zero]]

\* the call of linearProgram2
LPSolve ==
  /\ probe.op = "lp2"
  /\ ~probe.done
  /\ probe' = [probe EXCEPT
       !.done = TRUE,
       !.solved = linearProgram2(probe.lines, probe.radius, probe.optVelocity,
                                 probe.directionOpt)]
  /\ UNCHANGED << agentCount, width, height, params, agents, pc, tick, ticks, call >>

LPNext == LPSolve

SpecLP == LPInit /\ [][LPNext]_vars

\* linearProgram2 has returned and reports success
LPSucceeded ==
  /\ probe.op = "lp2"
  /\ probe.done
  /\ probe.solved.lineFail = Len(probe.lines)

\* tolerance of the comparisons on a solution, in velocity units
LPTolerance == Rat(1, 100)

\* C10: a velocity linearProgram2 returns with success is on the permitted
\* side of every line, det(direction, point - result) <= 0, and no longer
\* than the radius, both within the tolerance
C10_SolutionSatisfiesConstraints ==
  LPSucceeded =>
    /\ \A i \in 1..Len(probe.lines) :
         Le(det(probe.lines[i].direction,
                sub(probe.lines[i].point, probe.solved.result)),
            LPTolerance)
    /\ Le(mag(probe.solved.result), Plus(probe.radius, LPTolerance))

\* linearProgram2 succeeded on several lines, one of which the velocity it
\* started from violated
C10_Witness ==
  /\ LPSucceeded
  /\ Len(probe.lines) > 1
  /\ ~probe.directionOpt
  /\ \E i \in 1..Len(probe.lines) :
       Gt(det(probe.lines[i].direction,
              sub(probe.lines[i].point, limit(probe.optVelocity, probe.radius))),
          LPTolerance)

\* ------------------------------------------------------------------------
\* update on a collection and on the same agents in another order
\* ------------------------------------------------------------------------

MaxFile == 3

\* this.agents holding the same agents in the order perm
Permuted(collection, perm) ==
  [k \in 1..Len(collection) |-> collection[perm[k]]]

OrderLayouts == { "row", "file", "star" }

OrderInit ==
  /\ agentCount \in 1..MaxFile
  /\ width = Zero
  /\ height = Zero
  /\ params \in { << >> } \cup Overrides
  /\ \E layout \in OrderLayouts : agents = Crowd(layout, agentCount)
  /\ pc = "idle"
  /\ tick = NoTick
  /\ ticks = 0
  /\ call = NoCall
  /\ \E perm \in Permutations(1..agentCount), deltaTime \in DeltaTimes :
       probe = [op |-> "order", perm |-> perm, deltaTime |-> deltaTime,
                done |-> FALSE, permuted |-> << >>]

\* update(deltaTime) on the collection, and on the collection in the order
\* probe.perm
OrderUpdate ==
  /\ probe.op = "order"
  /\ ~probe.done
  /\ agents' = update(agents, params, probe.deltaTime)
  /\ probe' = [probe EXCEPT
       !.done = TRUE,
       !.permuted = update(Permuted(agents, probe.perm), params, probe.deltaTime)]
  /\ call' = [op |-> "update", deltaTime |-> probe.deltaTime, before |-> agents]
  /\ UNCHANGED << agentCount, width, height, params, pc, tick, ticks >>

OrderNext == OrderUpdate

SpecOrder == OrderInit /\ [][OrderNext]_vars

\* tolerance of the comparison of two outcomes, in pixels (per second)
OrderTolerance == Rat(1, 10)

\* C7: update gives every agent, found by its id, the same new velocity and
\* position whatever the order of the agents in the collection, within the
\* tolerance
C7_OutcomeIndependentOfOrder ==
  (probe.op = "order" /\ probe.done) =>
    \A k \in 1..Len(agents) :
      /\ probe.permuted[k].id = agents[probe.perm[k]].id
      /\ Le(dist(probe.permuted[k].velocity, agents[probe.perm[k]].velocity),
            OrderTolerance)
      /\ Le(dist(probe.permuted[k].position, agents[probe.perm[k]].position),
            OrderTolerance)

\* ------------------------------------------------------------------------
\* The optimum of linearProgram2.  The point of a convex region nearest to a
\* target is the target itself, its foot on an edge, or a corner; the
\* candidates below are all of these for the disc cut by the lines.
\* ------------------------------------------------------------------------

\* tolerance within which a candidate counts as satisfying a constraint
FeasibleTolerance == Rat(1, 1000)

\* v satisfies every line and the speed bound
Feasible(lines, radius, v) ==
  /\ \A i \in 1..Len(lines) :
       Le(det(lines[i].direction, sub(lines[i].point, v)), FeasibleTolerance)
  /\ Le(mag(v), Plus(radius, FeasibleTolerance))

\* the foot of target on a line
Foot(line, target) ==
  add(line.point, mult(line.direction, dot(line.direction, sub(target, line.point))))

\* where two lines cross, if they do
Crossings(a, b) ==
  IF Le(MathAbs(det(a.direction, b.direction)), EPSILON) THEN {}
  ELSE { add(a.point,
             mult(a.direction,
                  Over(det(b.direction, sub(a.point, b.point)),
                       det(a.direction, b.direction)))) }

\* where a line crosses the circle of the given radius, if it does
CircleCrossings(line, radius) ==
  LET b == dot(line.point, line.direction)
      disc == Minus(Plus(Times(b, b), Times(radius, radius)), absSq(line.point))
  IN  IF Lt(disc, Zero) THEN {}
      ELSE { add(line.point, mult(line.direction, Minus(Neg(b), Sqrt(disc)))),
             add(line.point, mult(line.direction, Plus(Neg(b), Sqrt(disc)))) }

\* every point that can be the feasible point nearest to target
Candidates(lines, radius, target) ==
  { limit(target, radius) }
    \cup { Foot(lines[i], target) : i \in 1..Len(lines) }
    \cup UNION { Crossings(lines[i], lines[j]) : i, j \in 1..Len(lines) }
    \cup UNION { CircleCrossings(lines[i], radius) : i \in 1..Len(lines) }

\* C11: a velocity linearProgram2 returns with success when it optimises a
\* point satisfies the constraints, and no velocity that satisfies every
\* line and the speed bound is nearer to the preferred velocity, within the
\* tolerance
C11_SolutionIsNearestFeasible ==
  (LPSucceeded /\ ~probe.directionOpt) =>
    /\ Feasible(probe.lines, probe.radius, probe.solved.result)
    /\ \A v \in Candidates(probe.lines, probe.radius, probe.optVelocity) :
         Feasible(probe.lines, probe.radius, v) =>
           Le(dist(probe.solved.result, probe.optVelocity),
              Plus(dist(v, probe.optVelocity), LPTolerance))

\* linearProgram2 succeeded on several lines with a result away from the
\* preferred velocity, and another feasible velocity is farther from it
C11_Witness ==
  /\ LPSucceeded
  /\ ~probe.directionOpt
  /\ Len(probe.lines) > 1
  /\ Gt(dist(probe.solved.result, limit(probe.optVelocity, probe.radius)),
        LPTolerance)
  /\ \E v \in Candidates(probe.lines, probe.radius, probe.optVelocity) :
       /\ Feasible(probe.lines, probe.radius, v)
       /\ Gt(dist(v, probe.optVelocity),
             Plus(dist(probe.solved.result, probe.optVelocity), LPTolerance))

\* ------------------------------------------------------------------------
\* appendAgentConstraint on its own: a pair of agents is drawn and its
\* constraint pushed on an empty line list
\* ------------------------------------------------------------------------

\* where the other agent is, seen from the agent, in pixels
Displacements ==
  { Vector2(Zero, Zero), Vector2(Num(11), Zero), Vector2(Zero, Num(-22)),
    Vector2(Rat(385, 10), Zero), Vector2(Num(-66), Num(33)),
    Vector2(Num(110), Num(110)) }

\* the velocities of the two agents, in pixels per second
Velocities ==
  { Vector2(Zero, Zero), Vector2(Num(50), Zero), Vector2(Num(-30), Num(40)),
    Vector2(Rat(1, 1000000), Zero) }

\* an agent of the scenario at position, moving with velocity
MovingAgent(k, position, velocity) ==
  [AgentAt(k, position) EXCEPT !.velocity = velocity]

ConstraintInit ==
  /\ agentCount = 2
  /\ width = Zero
  /\ height = Zero
  /\ params \in { << >> } \cup Overrides
  /\ \E d \in Displacements, va \in Velocities, vb \in Velocities :
       agents = << MovingAgent(1, Vector2(Num(55), Num(55)), va),
                   MovingAgent(2, add(Vector2(Num(55), Num(55)), d), vb) >>
  /\ pc = "idle"
  /\ tick = NoTick
  /\ ticks = 0
  /\ call = NoCall
  /\ \E deltaTime \in { Rat(2, 100), Rat(1, 10) } :
       probe = [op |-> "constraint", dt |-> TickDt(deltaTime), calls |-> 0,
                lines |-> << >>]

\* this.appendAgentConstraint(agent, other, lines, invTimeHorizon, dt)
ConstraintAppend ==
  /\ probe.op = "constraint"
  /\ probe.calls = 0
  /\ probe' = [probe EXCEPT
       !.calls = @ + 1,
       !.lines = Append(@, appendAgentConstraint(agents[1], agents[2],
                                                 TickInvTimeHorizon(params),
                                                 probe.dt))]
  /\ UNCHANGED << agentCount, width, height, params, agents, pc, tick, ticks, call >>

ConstraintNext == ConstraintAppend

SpecConstraint == ConstraintInit /\ [][ConstraintNext]_vars

\* tolerance of the length of a direction
UnitTolerance == Rat(1, 1000)

\* v has length 1 within the tolerance
IsUnit(v) ==
  /\ ~VecIsNaN(v)
  /\ Le(MathAbs(Minus(mag(v), Num(1))), UnitTolerance)

\* the fixed fallback direction
FallbackDirection == Vector2(Num(1), Zero)

\* C12: every call of appendAgentConstraint pushes exactly one constraint,
\* and the direction of every constraint pushed has length 1
C12_OneUnitConstraintPerNeighbor ==
  probe.op = "constraint" =>
    /\ Len(probe.lines) = probe.calls
    /\ \A n \in 1..Len(probe.lines) : IsUnit(probe.lines[n].direction)

\* a constraint was pushed with the fallback direction, the computed one
\* being degenerate
C12_Witness ==
  /\ probe.op = "constraint"
  /\ probe.calls = 1
  /\ agents[1].position = agents[2].position
  /\ agents[1].velocity = agents[2].velocity
  /\ probe.lines[1].direction = FallbackDirection

\* the two agents are at the same position and the constraint is built
SamePlaceBuilt ==
  /\ probe.op = "constraint"
  /\ probe.calls = 1
  /\ agents[1].position = agents[2].position

\* C13: for two agents at the same position, whatever their velocities, the
\* constraint is built and its direction is the fixed fallback
C13_SamePlaceGivesFallback ==
  SamePlaceBuilt =>
    /\ Len(probe.lines) = 1
    /\ probe.lines[1].direction = FallbackDirection

\* C13 as amended: for two agents at the same position, whatever their
\* velocities, the constraint is built with a finite point and a direction
\* of length 1, which is the fixed fallback when the relative velocity of
\* the two is no longer than EPSILON
C13_SamePlaceGivesUnitDirection ==
  SamePlaceBuilt =>
    /\ Len(probe.lines) = 1
    /\ ~VecIsNaN(probe.lines[1].point)
    /\ IsUnit(probe.lines[1].direction)
    /\ Le(mag(sub(agents[1].velocity, agents[2].velocity)), EPSILON) =>
         probe.lines[1].direction = FallbackDirection

\* a constraint was built for two agents at the same position moving
\* differently, and its direction is not the fallback
C13_Witness ==
  /\ SamePlaceBuilt
  /\ Gt(mag(sub(agents[1].velocity, agents[2].velocity)), Num(1))
  /\ probe.lines[1].direction # FallbackDirection

\* ------------------------------------------------------------------------
\* Histories of whole calls: the host calls resize, reset, configure and
\* update in any order, each call running to its return; probe remembers
\* the last two calls and the agents the last reset replaced
\* ------------------------------------------------------------------------

MaxCalls == 4

\* probe after one more call named op
Called(op, deltaTime, found) ==
  [op |-> "history", calls |-> probe.calls + 1, last |-> op,
   prior |-> probe.last, deltaTime |-> deltaTime, found |-> found]

HistoryInit ==
  /\ agentCount \in 1..MaxAgentCount
  /\ width = Zero
  /\ height = Zero
  /\ params = << >>
  /\ agents = << >>
  /\ pc = "idle"
  /\ tick = NoTick
  /\ ticks = 0
  /\ call = NoCall
  /\ probe = [op |-> "history", calls |-> 0, last |-> "new", prior |-> "new",
              deltaTime |-> Zero, found |-> << >>]

\* resize(w, h)
HistoryResize(w, h, random) ==
  /\ probe.calls < MaxCalls
  /\ width' = w
  /\ height' = h
  /\ agents' = createCircleScenario(w, h, agentCount, random)
  /\ ticks' = 0
  /\ probe' = Called("resize", Zero, << >>)
  /\ UNCHANGED << agentCount, params, pc, tick, call >>

\* reset() leaving the agents as they are
HistoryReset_Keep(random) ==
  /\ probe.calls < MaxCalls
  /\ ticks' = 0
  /\ probe' = Called("reset", Zero, agents)
  /\ UNCHANGED << agentCount, width, height, params, agents, pc, tick, call >>

\* reset()
HistoryReset(random) ==
  /\ probe.calls < MaxCalls
  /\ agents' = createCircleScenario(width, height, agentCount, random)
  /\ ticks' = 0
  /\ probe' = Called("reset", Zero, agents)
  /\ UNCHANGED << agentCount, width, height, params, pc, tick, call >>

\* configure(nextParams)
HistoryConfigure(nextParams) ==
  /\ probe.calls < MaxCalls
  /\ params' = [n \in DOMAIN params \cup DOMAIN nextParams |->
                  IF n \in DOMAIN nextParams THEN nextParams[n] ELSE params[n]]
  /\ probe' = Called("configure", Zero, << >>)
  /\ UNCHANGED << agentCount, width, height, agents, pc, tick, ticks, call >>

\* update(deltaTime)
HistoryUpdate(deltaTime) ==
  /\ probe.calls < MaxCalls
  /\ ReturnsEarly(agents, deltaTime) \/ ticks < MaxTicks
  /\ agents' = update(agents, params, deltaTime)
  /\ ticks' = IF ReturnsEarly(agents, deltaTime) THEN ticks ELSE ticks + 1
  /\ probe' = Called("update", deltaTime, probe.found)
  /\ UNCHANGED << agentCount, width, height, params, pc, tick, call >>

\* arena sizes and elapsed times of the calls of a history
HistoryArenas == { << Zero, Zero >>, << Num(50), Num(50) >>, << Num(120), Num(90) >> }

HistoryDeltaTimes == { Zero, Rat(2, 100) }

HistoryNext ==
  \/ \E a \in HistoryArenas, random \in RandomStreams :
       HistoryResize(a[1], a[2], random)
  \/ \E random \in RandomStreams : HistoryReset(random)
  \/ \E nextParams \in Overrides : HistoryConfigure(nextParams)
  \/ \E deltaTime \in HistoryDeltaTimes : HistoryUpdate(deltaTime)

SpecHistory == HistoryInit /\ [][HistoryNext]_vars

\* the last two calls were reset() and then update(0)
ResetThenUpdateZero ==
  /\ probe.op = "history"
  /\ probe.prior = "reset"
  /\ probe.last = "update"
  /\ probe.deltaTime = Zero

\* where agent k of the scenario starts in the present arena
StartPosition(k) ==
  createCircleScenario(width, height, agentCount,
                       [i \in 0..MaxAgentCount |-> Zero])[k].position

\* C14: after reset() and then update(0) every agent is at the starting
\* position given by the arena and its index, with velocity zero, whatever
\* calls came before the reset
C14_ResetForgetsHistory ==
  ResetThenUpdateZero =>
    /\ Len(agents) = IF width = Zero \/ height = Zero THEN 0 ELSE agentCount
    /\ \A k \in 1..Len(agents) :
         /\ agents[k].position = StartPosition(k)
         /\ agents[k].velocity = zero

\* reset() replaced agents that had moved, and update(0) followed
C14_Witness ==
  /\ ResetThenUpdateZero
  /\ Len(agents) > 0
  /\ Len(probe.found) > 0
  /\ \E k \in 1..Len(probe.found) :
       /\ probe.found[k].velocity # zero
       /\ probe.found[k].position # StartPosition(k)

\* ------------------------------------------------------------------------
\* Two groups facing each other: every agent starts where its partner of
\* the other group is heading, and update is called again and again with
\* the same positive elapsed time
\* ------------------------------------------------------------------------

MaxGroup == 2

\* the distance between the two groups, in pixels
GroupGaps == { Num(77), Num(300) }

\* the start of member k of the left (side 0) or right (side 1) group
GroupStart(side, k, gap) ==
  Vector2(IF side = 0 THEN Num(55) ELSE Plus(Num(55), gap), Num(55 + 31 * (k - 1)))

\* two groups of size members; agent k and agent size + k swap places
TwoGroups(size, gap, random) ==
  [n \in 1..(2 * size) |->
     CircleAgent(n - 1,
                 GroupStart(IF n <= size THEN 0 ELSE 1,
                            IF n <= size THEN n ELSE n - size, gap),
                 GroupStart(IF n <= size THEN 1 ELSE 0,
                            IF n <= size THEN n ELSE n - size, gap),
                 Times(agentRadiusMeters, Num(pixelsPerMeter)),
                 Times(Plus(Rat(12, 10), Times(random[n - 1], Rat(6, 10))),
                       Num(pixelsPerMeter)))]

\* the agents of collection within the goal tolerance of their second anchor
AtTarget(collection) ==
  { k \in 1..Len(collection) :
      Lt(dist(collection[k].position, collection[k].anchors[2]),
         MathMax(Times(collection[k].radius, Rat(8, 10)), Num(6))) }

LiveInit ==
  /\ agentCount \in 1..MaxGroup
  /\ width = Zero
  /\ height = Zero
  /\ params = << >>
  /\ \E gap \in GroupGaps, random \in RandomStreams :
       agents = TwoGroups(agentCount, gap, random)
  /\ pc = "idle"
  /\ tick = NoTick
  /\ ticks = 0
  /\ call = NoCall
  /\ \E deltaTime \in { Rat(5, 100), Rat(1, 10) } :
       probe = [op |-> "live", deltaTime |-> deltaTime,
                reached |-> AtTarget(agents)]

\* the host calls update once more, some agent having still to reach its
\* target; ticks keeps the parity of the calls made
LiveCall ==
  /\ probe.op = "live"
  /\ probe.reached # 1..Len(agents)
  /\ ticks' = 1 - ticks

\* update(deltaTime); probe.reached collects the agents that have been
\* within the goal tolerance of their target
LiveUpdate ==
  /\ LiveCall
  /\ agents' = update(agents, params, probe.deltaTime)
  /\ probe' = [probe EXCEPT !.reached = @ \cup AtTarget(agents')]
  /\ UNCHANGED << agentCount, width, height, params, pc, tick, call >>

LiveNext == LiveUpdate

\* update is total, so that the host's next call is always answered
SpecLive == LiveInit /\ [][LiveNext]_vars /\ WF_ticks(LiveCall)

\* every agent has been within the goal tolerance of its target
AllReached == probe.op = "live" /\ probe.reached = 1..Len(agents)

\* C15: with update called again and again with positive elapsed time,
\* every agent of two groups facing each other eventually comes within the
\* goal tolerance of its target anchor
C15_EveryAgentReachesTarget == <>AllReached

\* ------------------------------------------------------------------------
\* configure and the parameters the next tick reads, under Spec
\* ------------------------------------------------------------------------

\* a step of configure: every parameter is the value of one override where
\* it names it and its previous value elsewhere, and the agents are kept
ConfigureMerges ==
  call'.op = "configure" =>
    /\ agents' = agents
    /\ \E nextParams \in Overrides :
         /\ DOMAIN params' = DOMAIN params \cup DOMAIN nextParams
         /\ \A n \in DOMAIN nextParams : params'[n] = nextParams[n]
         /\ \A n \in DOMAIN params \ DOMAIN nextParams : params'[n] = params[n]

\* tolerance, in pixels, of a distance compared with the neighbour radius
RadiusTolerance == Rat(1, 10)

\* the neighbour radius in pixels and the time horizon that the parameters
\* as they stand ask for
MergedNeighborRadius ==
  Times(IF "neighborRadius" \in DOMAIN params THEN params.neighborRadius
        ELSE DEFAULTS_neighborRadius, Num(pixelsPerMeter))

MergedTimeHorizon ==
  IF "timeHorizon" \in DOMAIN params THEN params.timeHorizon
  ELSE DEFAULTS_timeHorizon

\* agent j is in the neighbour list the tick holds for agent k
TickLists(k, j) ==
  \E n \in 1..Len(tick.neighborTable[k]) : tick.neighborTable[k][n].index = j

\* the tick in progress works with the parameters as they stand: its
\* inverse time horizon is that of the merged time horizon (not below 0.2),
\* and its neighbour lists hold the agents inside the merged radius and
\* none outside
TickUsesMerged ==
  pc = "map" =>
    /\ Le(MathAbs(Minus(Times(tick.invTimeHorizon,
                              MathMax(MergedTimeHorizon, Rat(2, 10))),
                        Num(1))),
          Rat(1, 1000))
    /\ \A k \in 1..Len(agents), j \in 1..Len(agents) :
         k # j =>
           /\ Lt(dist(agents[k].position, agents[j].position),
                 Minus(MergedNeighborRadius, RadiusTolerance)) => TickLists(k, j)
           /\ Gt(dist(agents[k].position, agents[j].position),
                 Plus(MergedNeighborRadius, RadiusTolerance)) => ~TickLists(k, j)

\* C16: configure(overrides) sets the parameters it names, keeps the others
\* and the agents, and the next update works with the merged neighbour
\* radius and time horizon
C16_ConfigureMergesAndNextTickReads ==
  [][ConfigureMerges]_vars /\ []TickUsesMerged

\* a tick runs after both parameters were overridden in turn: its inverse
\* time horizon is 5 and some agent is too far to be another's neighbour
C16_Witness ==
  /\ pc = "map"
  /\ DOMAIN params = {"neighborRadius", "timeHorizon"}
  /\ Len(agents) >= 2
  /\ \E k \in 1..Len(agents) : Len(tick.neighborTable[k]) < Len(agents) - 1
  /\ tick.invTimeHorizon = Num(5)

\* ------------------------------------------------------------------------
\* linearProgram2 failing, under SpecLP
\* ------------------------------------------------------------------------

\* linearProgram2 has returned and reports the line it failed on
LPFailed ==
  /\ probe.op = "lp2"
  /\ probe.done
  /\ probe.solved.lineFail < Len(probe.lines)

\* linearProgram1 on line lineNo with candidate, as linearProgram2 calls it
LP1On(lineNo, candidate) ==
  linearProgram1(probe.lines, lineNo, probe.radius, probe.optVelocity,
                 probe.directionOpt, candidate)

\* the candidates linearProgram1 is tried with
LP1Candidates == { zero, probe.optVelocity, probe.solved.result }

\* C17: when linearProgram2 fails on line i, the velocity it returns
\* violates line i, linearProgram1 is infeasible on line i from it, it is
\* what linearProgram2 finds without failure on lines 0..i-1 alone, and it
\* satisfies those lines and the speed bound; and linearProgram1, whenever
\* infeasible, returns the candidate it was given
C17_FailureReturnsCandidateBeforeFirstFailingLine ==
  /\ LPFailed =>
       /\ Gt(det(probe.lines[probe.solved.lineFail + 1].direction,
                 sub(probe.lines[probe.solved.lineFail + 1].point,
                     probe.solved.result)), Zero)
       /\ ~LP1On(probe.solved.lineFail, probe.solved.result).success
       /\ linearProgram2(SubSeq(probe.lines, 1, probe.solved.lineFail),
                         probe.radius, probe.optVelocity, probe.directionOpt)
            = [lineFail |-> probe.solved.lineFail, result |-> probe.solved.result]
       /\ \A n \in 1..probe.solved.lineFail :
            Le(det(probe.lines[n].direction,
                   sub(probe.lines[n].point, probe.solved.result)), LPTolerance)
       /\ Le(mag(probe.solved.result), Plus(probe.radius, LPTolerance))
  /\ (probe.op = "lp2" /\ probe.done) =>
       \A lineNo \in 0..(Len(probe.lines) - 1), candidate \in LP1Candidates :
         ~LP1On(lineNo, candidate).success =>
           LP1On(lineNo, candidate).result = candidate

\* linearProgram2 failed on a later line, after an earlier line had moved
\* the candidate away from the preferred velocity
C17_Witness ==
  /\ LPFailed
  /\ probe.solved.lineFail >= 1
  /\ ~probe.directionOpt
  /\ Le(mag(probe.optVelocity), probe.radius)
  /\ probe.solved.result # probe.optVelocity

\* ------------------------------------------------------------------------
\* linearProgram1 on its own, on the first line of a list
\* ------------------------------------------------------------------------

\* the first lines to try: those of the pool and two slanted ones
FirstLines ==
  { LinePool[n] : n \in 1..Len(LinePool) }
    \cup { OrcaLine(Vector2(Rat(1, 2), Zero), Vector2(Zero, Num(1))),
           OrcaLine(Vector2(Num(1), Num(-1)), Vector2(Rat(8, 10), Rat(6, 10))) }

\* the targets to try: those of linearProgram2 and two inside the small disc
FirstTargets ==
  Targets \cup { [optVelocity |-> Vector2(Zero, Rat(1, 2)), directionOpt |-> FALSE],
                 [optVelocity |-> Vector2(Rat(1, 2), Rat(-1, 4)), directionOpt |-> FALSE] }

LP1Init ==
  /\ agentCount = 0
  /\ width = Zero
  /\ height = Zero
  /\ params = << >>
  /\ agents = << >>
  /\ pc = "idle"
  /\ tick = NoTick
  /\ ticks = 0
  /\ call = NoCall
  /\ \E line \in FirstLines, radius \in Radii, target \in FirstTargets :
       probe = [op |-> "lp1", lines |-> << line >>, radius |-> radius,
                optVelocity |-> target.optVelocity,
                directionOpt |-> target.directionOpt,
                done |-> FALSE, solved |-> [success |-> FALSE, result |-> zero]]

\* the call linearProgram1(lines, 0, radius, optVelocity, directionOpt, result)
LP1Solve ==
  /\ probe.op = "lp1"
  /\ ~probe.done
  /\ probe' = [probe EXCEPT
       !.done = TRUE,
       !.solved = linearProgram1(probe.lines, 0, probe.radius, probe.optVelocity,
                                 probe.directionOpt, probe.solved.result)]
  /\ UNCHANGED << agentCount, width, height, params, agents, pc, tick, ticks, call >>

LP1Next == LP1Solve

SpecLP1 == LP1Init /\ [][LP1Next]_vars

\* the point of the line nearest to the origin
ChordMiddle(line) ==
  sub(line.point, mult(line.direction, dot(line.point, line.direction)))

\* the line comes within radius of the origin
MeetsDisc(line, radius) == Le(mag(ChordMiddle(line)), radius)

\* half the length of the part of the line inside the disc
ChordHalf(line, radius) ==
  Sqrt(MathMax(Zero, Minus(Times(radius, radius), absSq(ChordMiddle(line)))))

\* the points of the line that can be nearest to target inside the disc:
\* the foot of target and the two ends of the chord
ChordCandidates(line, radius, target) ==
  { Foot(line, target),
    add(ChordMiddle(line), mult(line.direction, ChordHalf(line, radius))),
    sub(ChordMiddle(line), mult(line.direction, ChordHalf(line, radius))) }

\* linearProgram1 was called on a first line that meets the disc, to
\* optimise a point
LP1PointCase ==
  /\ probe.op = "lp1"
  /\ probe.done
  /\ ~probe.directionOpt
  /\ MeetsDisc(probe.lines[1], probe.radius)

\* C18: on line 0, optimising a point, with the line meeting the speed
\* disc, linearProgram1 succeeds with a point of the line inside the disc,
\* and no point of the line inside the disc is nearer to the preferred
\* velocity
C18_FirstLineGivesNearestPointOfChord ==
  LP1PointCase =>
    /\ probe.solved.success
    /\ Le(MathAbs(det(probe.lines[1].direction,
                      sub(probe.solved.result, probe.lines[1].point))),
          LPTolerance)
    /\ Le(mag(probe.solved.result), Plus(probe.radius, LPTolerance))
    /\ \A v \in ChordCandidates(probe.lines[1], probe.radius, probe.optVelocity) :
         Le(mag(v), Plus(probe.radius, FeasibleTolerance)) =>
           Le(dist(probe.solved.result, probe.optVelocity),
              Plus(dist(v, probe.optVelocity), LPTolerance))

\* the foot of the preferred velocity on the line is outside the disc, and
\* linearProgram1 returned an end of the chord
C18_Witness ==
  /\ LP1PointCase
  /\ probe.solved.success
  /\ Gt(mag(Foot(probe.lines[1], probe.optVelocity)), Plus(probe.radius, Num(1)))
  /\ Le(MathAbs(Minus(mag(probe.solved.result), probe.radius)), LPTolerance)

\* ------------------------------------------------------------------------
\* linearProgram2 and linearProgram3 on the constraints of one agent among
\* close neighbours
\* ------------------------------------------------------------------------

MaxNear == 3

\* where the neighbours are, seen from the agent, in pixels: overlapping,
\* around, to one side, and just out of touch
Neighbourhoods ==
  { << Vector2(Num(11), Zero), Vector2(Zero, Num(-22)),
       Vector2(Num(-20), Num(-20)), Vector2(Num(22), Num(11)) >>,
    << Vector2(Rat(385, 10), Zero), Vector2(Rat(-385, 10), Zero),
       Vector2(Zero, Rat(385, 10)), Vector2(Zero, Rat(-385, 10)) >>,
    << Vector2(Num(33), Zero), Vector2(Zero, Num(33)),
       Vector2(Num(-66), Num(33)), Vector2(Num(110), Num(110)) >>,
    << Vector2(Num(31), Zero), Vector2(Num(-31), Zero),
       Vector2(Zero, Num(-31)), Vector2(Zero, Num(31)) >> }

\* where the agent is heading, seen from the agent
GoalOffsets == { Vector2(Zero, Zero), Vector2(Num(100), Zero), Vector2(Num(-60), Num(80)) }

\* the agent at (110, 110) heading for goal, and count neighbours around it
NearAgents(places, count, goal, va, vb) ==
  [k \in 1..(count + 1) |->
     IF k = 1
       THEN [MovingAgent(1, Vector2(Num(110), Num(110)), va) EXCEPT
               !.anchors = << Vector2(Num(110), Num(110)),
                              add(Vector2(Num(110), Num(110)), goal) >>]
       ELSE MovingAgent(k, add(Vector2(Num(110), Num(110)), places[k - 1]), vb)]

NearInit ==
  /\ agentCount \in 1..MaxNear
  /\ width = Zero
  /\ height = Zero
  /\ params = << >>
  /\ \E places \in Neighbourhoods, goal \in GoalOffsets,
        va \in Velocities, vb \in Velocities :
       agents = NearAgents(places, agentCount, goal, va, vb)
  /\ pc = "idle"
  /\ tick = NoTick
  /\ ticks = 0
  /\ call = NoCall
  /\ probe = [op |-> "near", step |-> "lines", lines |-> << >>,
              solved |-> [lineFail |-> 0, result |-> zero], restored |-> {},
              velocity |-> zero]

\* the constraints of the agent against its neighbours, in order
NearLines ==
  /\ probe.op = "near"
  /\ probe.step = "lines"
  /\ probe' = [probe EXCEPT
       !.step = "lp2",
       !.lines = AgentLines(agents, [n \in 1..agentCount |-> NeighborRef(n + 1, Zero)],
                            1, TickInvTimeHorizon(params), TickDt(Rat(5, 100)))]
  /\ UNCHANGED << agentCount, width, height, params, agents, pc, tick, ticks, call >>

\* this.linearProgram2(lines, agent.maxSpeed, preferred, false)
NearSolve ==
  /\ probe.op = "near"
  /\ probe.step = "lp2"
  /\ probe' = [probe EXCEPT
       !.step = "lp3",
       !.solved = linearProgram2(probe.lines, agents[1].maxSpeed,
                                 computePreferredVelocity(agents[1]), FALSE)]
  /\ UNCHANGED << agentCount, width, height, params, agents, pc, tick, ticks, call >>

\* this.linearProgram3(lines, 0, lineFail, agent.maxSpeed, result), when
\* linearProgram2 failed
NearAdjust ==
  /\ probe.op = "near"
  /\ probe.step = "lp3"
  /\ probe.solved.lineFail < Len(probe.lines)
  /\ probe' = [probe EXCEPT
       !.step = "done",
       !.velocity = linearProgram3(probe.lines, 0, probe.solved.lineFail,
                                   agents[1].maxSpeed, probe.solved.result),
       !.restored = LP3Restored(probe.lines, 0, probe.solved.lineFail,
                                agents[1].maxSpeed, probe.solved.result)]
  /\ UNCHANGED << agentCount, width, height, params, agents, pc, tick, ticks, call >>

NearNext == NearLines \/ NearSolve \/ NearAdjust

SpecNear == NearInit /\ [][NearNext]_vars

\* linearProgram3 has run on the constraints of the agent
NearAdjusted == probe.op = "near" /\ probe.step = "done"

\* C19: when linearProgram3 runs on constraints that appendAgentConstraint
\* built, with numObstLines = 0, no inner linearProgram2 fails: the branch
\* that puts the previous result back is not taken on any line
C19_InnerSolveNeverRestores ==
  NearAdjusted => probe.restored = {}

\* linearProgram3 ran from the second line or later and moved the velocity
\* by an inner solve over a reduced constraint
C19_Witness ==
  /\ NearAdjusted
  /\ probe.solved.lineFail >= 1
  /\ Len(probe.lines) >= 3
  /\ probe.velocity # probe.solved.result
  /\ probe.restored = {}

\* ------------------------------------------------------------------------
\* The reduced constraints of linearProgram3: the loop over the earlier
\* lines for the last line of a list
\* ------------------------------------------------------------------------

MaxEarlier == 2

\* the lines to draw from: those of the pool and two nearly parallel to
\* its horizontal ones
ProjPool ==
  { LinePool[n] : n \in 1..Len(LinePool) }
    \cup { OrcaLine(Vector2(Zero, Num(2)), Vector2(Num(1), Rat(1, 1000000))),
           OrcaLine(Vector2(Num(1), Num(-2)), Vector2(Num(-1), Rat(1, 1000000))) }

ProjInit ==
  /\ agentCount = 0
  /\ width = Zero
  /\ height = Zero
  /\ params = << >>
  /\ agents = << >>
  /\ pc = "idle"
  /\ tick = NoTick
  /\ ticks = 0
  /\ call = NoCall
  /\ \E earlier \in 1..MaxEarlier :
       \E lines \in [1..(earlier + 1) -> ProjPool] :
         probe = [op |-> "proj", lines |-> lines, done |-> FALSE,
                  projLines |-> << >>]

\* the loop for (let j = numObstLines; j < i; j += 1), with numObstLines = 0
\* and i the last line
ProjBuild ==
  /\ probe.op = "proj"
  /\ ~probe.done
  /\ probe' = [probe EXCEPT
       !.done = TRUE,
       !.projLines = ProjLoop(probe.lines, Len(probe.lines) - 1, 0, << >>)]
  /\ UNCHANGED << agentCount, width, height, params, agents, pc, tick, ticks, call >>

ProjNext == ProjBuild

SpecProj == ProjInit /\ [][ProjNext]_vars

\* the reduced constraints have been built
ProjDone == probe.op = "proj" /\ probe.done

\* the violated line, the last of the list
ProjViolated == probe.lines[Len(probe.lines)]

\* earlier line n is near-parallel to the violated line
NearParallel(n) ==
  Le(MathAbs(det(ProjViolated.direction, probe.lines[n].direction)), EPSILON)

\* earlier line n points the same way as the violated line
NonOpposing(n) ==
  Gt(dot(ProjViolated.direction, probe.lines[n].direction), Zero)

\* point is half way between the points of the violated line and line n
IsMidpoint(point, n) ==
  Le(dist(point, mult(add(ProjViolated.point, probe.lines[n].point), Rat(5, 10))),
     LPTolerance)

\* point is on the violated line and on line n
IsIntersection(point, n) ==
  /\ Le(MathAbs(det(ProjViolated.direction, sub(point, ProjViolated.point))),
        LPTolerance)
  /\ Le(MathAbs(det(probe.lines[n].direction, sub(point, probe.lines[n].point))),
        LPTolerance)

\* direction is the unit vector along the direction of line n minus that of
\* the violated line
IsNormalizedDifference(direction, n) ==
  /\ IsUnit(direction)
  /\ Le(MathAbs(det(direction,
                    sub(probe.lines[n].direction, ProjViolated.direction))),
        UnitTolerance)
  /\ Gt(dot(direction, sub(probe.lines[n].direction, ProjViolated.direction)),
        Zero)

\* the earlier lines, in order
EarlierLines == [n \in 1..(Len(probe.lines) - 1) |-> n]

\* C20 as claimed: every earlier line gives one reduced constraint, whose
\* point is the midpoint of the two points when the line is near-parallel
\* to the violated line and non-opposing, and the intersection of the two
\* lines for every other pair, and whose direction is the normalized
\* difference of the two directions
C20_NonOpposingParallelMerge ==
  ProjDone =>
    /\ Len(probe.projLines) = Len(probe.lines) - 1
    /\ \A n \in 1..Len(probe.projLines) :
         /\ IF NearParallel(n) /\ NonOpposing(n)
              THEN IsMidpoint(probe.projLines[n].point, n)
              ELSE IsIntersection(probe.projLines[n].point, n)
         /\ IsNormalizedDifference(probe.projLines[n].direction, n)

\* the earlier lines that give a reduced constraint: all but those
\* near-parallel to the violated line and pointing the same way
ProjKept ==
  SelectSeq(EarlierLines, LAMBDA n : ~(NearParallel(n) /\ NonOpposing(n)))

\* C20 as amended: an earlier line near-parallel to the violated line and
\* pointing the same way gives no reduced constraint; every other earlier
\* line gives one, in order, whose point is the midpoint of the two points
\* when the lines are near-parallel (and opposing) and the intersection of
\* the two lines otherwise, and whose direction is the normalized
\* difference of the two directions
C20_OpposingParallelMerge ==
  ProjDone =>
    /\ Len(probe.projLines) = Len(ProjKept)
    /\ \A n \in 1..Len(ProjKept) :
         /\ IF NearParallel(ProjKept[n])
              THEN IsMidpoint(probe.projLines[n].point, ProjKept[n])
              ELSE IsIntersection(probe.projLines[n].point, ProjKept[n])
         /\ IsNormalizedDifference(probe.projLines[n].direction, ProjKept[n])

\* of two earlier lines near-parallel to the violated line, the one
\* pointing the same way was dropped and the opposing one gave a midpoint
C20_Witness ==
  /\ ProjDone
  /\ Len(probe.lines) = 3
  /\ Len(probe.projLines) = 1
  /\ NearParallel(1) /\ NonOpposing(1)
  /\ NearParallel(2) /\ ~NonOpposing(2)
  /\ IsMidpoint(probe.projLines[1].point, 2)

\* ------------------------------------------------------------------------
\* The goal swap: agents set down at chosen distances from their active
\* anchor, and the ticks of update run on them
\* ------------------------------------------------------------------------

MaxWalkers == 2

\* the distance at which swapGoalIfNeeded stops swapping
SwapReach(agent) == MathMax(Times(agent.radius, Rat(8, 10)), Num(6))

\* distances from the active anchor at which an agent is set down
Approaches ==
  << Zero, Rat(1, 2), Num(6), Num(12),
     Times(Times(agentRadiusMeters, Num(pixelsPerMeter)), Rat(8, 10)),
     Rat(25, 2), Num(20), Num(60), Rat(123, 10) >>

\* the second anchor's distance from the first: inside the reach of the
\* swap, just below and just above the reach plus 1, and far outside it
AnchorGaps == { Num(7), Num(13), Rat(27, 2), Num(160) }

\* agent k on its row, between anchors gap apart, at distance
\* Approaches[n] from the anchor it is heading for
Walker(k, gap, n, heading) ==
  [CircleAgent(k - 1, Vector2(Zero, Num(60 * k)), Vector2(gap, Num(60 * k)),
               Times(agentRadiusMeters, Num(pixelsPerMeter)),
               Times(Rat(12, 10), Num(pixelsPerMeter)))
     EXCEPT !.position = Vector2(IF heading = 0 THEN Approaches[n]
                                 ELSE Minus(gap, Approaches[n]),
                                 Num(60 * k)),
            !.headingIndex = heading]

GoalInit ==
  /\ agentCount \in 1..MaxWalkers
  /\ width = Zero
  /\ height = Zero
  /\ params = << >>
  /\ \E gap \in AnchorGaps, n \in 1..Len(Approaches), heading \in {0, 1} :
       agents = [k \in 1..agentCount |->
                   Walker(k, gap, ((n + 3 * k) % Len(Approaches)) + 1,
                          (heading + k) % 2)]
  /\ pc = "idle"
  /\ tick = NoTick
  /\ ticks = 0
  /\ call = NoCall
  /\ probe = NoProbe

GoalNext ==
  \/ \E deltaTime \in DeltaTimes : UpdateNoOp(deltaTime)
  \/ \E deltaTime \in DeltaTimes : UpdateBegin(deltaTime)
  \/ UpdateMap
  \/ UpdateApply

SpecGoal == GoalInit /\ [][GoalNext]_vars

\* update ran a tick on the agents call.before, or is running it
InTick ==
  /\ call.op = "update"
  /\ Gt(call.deltaTime, Zero)
  /\ Len(call.before) > 0

\* the agent is nearer to the anchor it is heading for than the reach
WithinReach(agent) ==
  Lt(dist(agent.position, agent.anchors[agent.headingIndex + 1]),
     SwapReach(agent))

\* C21: every agent's active-goal index is 0 or 1; through a tick with
\* elapsed > 0 and after it, the index is the other one than before the
\* tick exactly when the agent was then within max(radius * 0.8, 6) of its
\* active anchor, and the one before the tick otherwise: one flip at most,
\* at the start
C21_GoalFlipsOnceWithinReach ==
  /\ \A k \in 1..Len(agents) : agents[k].headingIndex \in {0, 1}
  /\ InTick =>
       \A k \in 1..Len(agents) :
         agents[k].headingIndex =
           IF WithinReach(call.before[k])
             THEN 1 - call.before[k].headingIndex
             ELSE call.before[k].headingIndex

\* a tick is over in which one agent, within reach of both its anchors,
\* flipped once, and another, at the very distance of the reach from its
\* active anchor, kept its index
C21_Witness ==
  /\ InTick
  /\ pc = "idle"
  /\ \E k \in 1..Len(agents) :
       /\ WithinReach(call.before[k])
       /\ WithinReach(swapGoalIfNeeded(call.before[k]))
       /\ agents[k].headingIndex # call.before[k].headingIndex
  /\ \E k \in 1..Len(agents) :
       /\ dist(call.before[k].position,
               call.before[k].anchors[call.before[k].headingIndex + 1])
            = SwapReach(call.before[k])
       /\ agents[k].headingIndex = call.before[k].headingIndex

\* ------------------------------------------------------------------------
\* An overlapping pair: the constraint each agent gets for the other, the
\* velocities the two adopt, and the positions advanced by the tick
\* ------------------------------------------------------------------------

\* where the second agent is, seen from the first: at the same place,
\* overlapping, touching, and apart
OverlapDisplacements ==
  { Vector2(Zero, Zero), Vector2(Num(11), Zero), Vector2(Zero, Num(-22)),
    Vector2(Num(20), Num(20)), Vector2(Rat(308, 10), Zero),
    Vector2(Rat(385, 10), Zero) }

\* the ways an agent picks its velocity from its constraint: the point of
\* the line, a velocity 10 px/s inside the permitted half-plane, a velocity
\* 20 px/s along the line, and the velocity update solves for
Adoptions == { "point", "inside", "along", "solved" }

Adopted(agent, line, how) ==
  CASE how = "point" -> line.point
    [] how = "inside" -> add(line.point, mult(perp(line.direction), Num(10)))
    [] how = "along" -> add(line.point, mult(line.direction, Num(20)))
    [] how = "solved" ->
         SolveVelocity(agent, << line >>, computePreferredVelocity(agent))

OverlapInit ==
  /\ agentCount = 2
  /\ width = Zero
  /\ height = Zero
  /\ params = << >>
  /\ \E d \in OverlapDisplacements, va \in Velocities, vb \in Velocities :
       agents = << MovingAgent(1, Vector2(Num(55), Num(55)), va),
                   MovingAgent(2, add(Vector2(Num(55), Num(55)), d), vb) >>
  /\ pc = "idle"
  /\ tick = NoTick
  /\ ticks = 0
  /\ call = NoCall
  /\ \E deltaTime \in { Rat(2, 100), Rat(1, 10) } :
       probe = [op |-> "overlap", step |-> "lines", dt |-> TickDt(deltaTime),
                before |-> << >>, lines |-> << >>, adopted |-> << >>]

\* the two calls of appendAgentConstraint for the pair, one in each
\* agent's callback
OverlapLines ==
  /\ probe.op = "overlap"
  /\ probe.step = "lines"
  /\ probe' = [probe EXCEPT
       !.step = "adopt",
       !.before = agents,
       !.lines = << appendAgentConstraint(agents[1], agents[2],
                                          TickInvTimeHorizon(params), probe.dt),
                    appendAgentConstraint(agents[2], agents[1],
                                          TickInvTimeHorizon(params), probe.dt) >>]
  /\ UNCHANGED << agentCount, width, height, params, agents, pc, tick, ticks, call >>

\* each agent's new velocity
OverlapAdopt(first, second) ==
  /\ probe.op = "overlap"
  /\ probe.step = "adopt"
  /\ probe' = [probe EXCEPT
       !.step = "advance",
       !.adopted = << Adopted(agents[1], probe.lines[1], first),
                      Adopted(agents[2], probe.lines[2], second) >>]
  /\ UNCHANGED << agentCount, width, height, params, agents, pc, tick, ticks, call >>

\* this.agents.forEach applying the new velocities
OverlapAdvance ==
  /\ probe.op = "overlap"
  /\ probe.step = "advance"
  /\ agents' = [k \in 1..2 |-> Integrate(agents[k], probe.adopted[k], probe.dt)]
  /\ probe' = [probe EXCEPT !.step = "done"]
  /\ UNCHANGED << agentCount, width, height, params, pc, tick, ticks, call >>

OverlapNext ==
  \/ OverlapLines
  \/ \E first \in Adoptions, second \in Adoptions : OverlapAdopt(first, second)
  \/ OverlapAdvance

SpecOverlap == OverlapInit /\ [][OverlapNext]_vars

\* the pair overlapped when its constraints were built: |p|^2 <= combinedRadius^2
Overlapped(pair) ==
  Le(absSq(sub(pair[2].position, pair[1].position)),
     Times(Plus(pair[1].radius, pair[2].radius),
           Plus(pair[1].radius, pair[2].radius)))

\* velocity v is in the half-plane linearProgram2 permits for the line
Permits(line, v) == Le(det(line.direction, sub(line.point, v)), Zero)

\* C22: when the two agents overlapped as their constraints for each
\* other were built, and each adopted a velocity its constraint permits,
\* then after the positions are advanced by the tick the two are at least
\* the sum of their radii apart, within the tolerance
C22_OverlapSeparatesWithinStep ==
  (/\ probe.op = "overlap"
   /\ probe.step = "done"
   /\ Overlapped(probe.before)
   /\ Permits(probe.lines[1], probe.adopted[1])
   /\ Permits(probe.lines[2], probe.adopted[2]))
    => Ge(dist(agents[1].position, agents[2].position),
          Minus(Plus(agents[1].radius, agents[2].radius), SeparationTolerance))

\* the agent's anchors are farther apart than max(radius * 0.8, 6) + 1
AnchorsApart(agent) ==
  Gt(dist(agent.anchors[1], agent.anchors[2]), Plus(SwapReach(agent), Num(1)))

\* velocity has magnitude speed, within the tolerance, and points from
\* position to target
FullSpeedToward(velocity, position, target, speed) ==
  /\ Le(MathAbs(Minus(mag(velocity), speed)), Times(speed, SpeedTolerance))
  /\ Ge(dot(velocity, sub(target, position)),
        Times(Times(mag(velocity), dist(position, target)),
              Minus(Num(1), SpeedTolerance)))

\* the agents whose preferred velocity the tick has computed
Preferring ==
  IF pc = "map" THEN 1..Len(tick.newVelocities) ELSE 1..Len(agents)

\* C23: in a tick with elapsed > 0, an agent whose anchors are farther
\* apart than max(radius * 0.8, 6) + 1 gets a preferred velocity that is
\* not zero: it has magnitude preferredSpeed, within the tolerance, and
\* points from the agent's position to its active anchor
C23_PreferredVelocityNeverZero ==
  InTick =>
    \A k \in Preferring :
      AnchorsApart(agents[k]) =>
        /\ agents[k].preferredVelocity # zero
        /\ FullSpeedToward(agents[k].preferredVelocity, call.before[k].position,
                           agents[k].anchors[agents[k].headingIndex + 1],
                           agents[k].preferredSpeed)

\* a tick is over in which an agent with anchors more than the reach plus
\* 1 apart flipped its goal, was then less than 2 away from the new one,
\* and got a preferred velocity that is not zero
C23_Witness ==
  /\ InTick
  /\ pc = "idle"
  /\ \E k \in 1..Len(agents) :
       /\ AnchorsApart(agents[k])
       /\ agents[k].headingIndex # call.before[k].headingIndex
       /\ Lt(dist(call.before[k].position,
                  agents[k].anchors[agents[k].headingIndex + 1]), Num(2))
       /\ agents[k].preferredVelocity # zero

\* ------------------------------------------------------------------------
\* CAModel: the cellular automaton on a Moore neighbourhood grid.  Its
\* fields other than width, height, params and agents are kept in probe;
\* a cell is [x, y] with integer coordinates, an agent's id `ca-${index}`
\* is its index, and an empty grid entry (null) is NoAgent.
\* ------------------------------------------------------------------------

DEFAULT_CELL_SIZE == 24
DEFAULT_RATE == Rat(125, 100)
BASE_STEP_SECONDS == Rat(35, 100)
NoAgent == -1

GridCell(x, y) == [x |-> x, y |-> y]

NEIGHBOR_OFFSETS ==
  << GridCell(-1, -1), GridCell(0, -1), GridCell(1, -1), GridCell(-1, 0),
     GridCell(1, 0), GridCell(-1, 1), GridCell(0, 1), GridCell(1, 1) >>

\* Math.floor to an integer (for |a| < 2^30)
FloorInt(a) ==
  IF a.m = 0 THEN 0
  ELSE IF a.e >= 0 THEN a.m * Pow2[a.e]
  ELSE IF -a.e > 30 THEN (IF a.m < 0 THEN -1 ELSE 0)
  ELSE a.m \div Pow2[-a.e]

IntMax(a, b) == IF b > a THEN b ELSE a
IntMin(a, b) == IF b < a THEN b ELSE a

resolveCellSize(p) ==
  RoundInt(MathMax(Num(10),
                   MathMin(Num(60), Param(p, "cellSize", Num(DEFAULT_CELL_SIZE)))))

resolveUpdateRate(p) ==
  MathMax(Rat(1, 4), MathMin(Num(6), Param(p, "updateRate", DEFAULT_RATE)))

isInside(ca, x, y) == x >= 0 /\ x < ca.cols /\ y >= 0 /\ y < ca.rows

cellDistance(a, b) == Hypot(Num(a.x - b.x), Num(a.y - b.y))

getNeighbors(cell) ==
  [n \in 1..Len(NEIGHBOR_OFFSETS) |->
     GridCell(cell.x + NEIGHBOR_OFFSETS[n].x, cell.y + NEIGHBOR_OFFSETS[n].y)]

\* [array[i], array[j]] = [array[j], array[i]], for positions from 0
SwapEntries(array, i, j) ==
  [array EXCEPT ![i + 1] = array[j + 1], ![j + 1] = array[i + 1]]

\* the loop of shuffle from position i down; js[i] is what
\* Math.floor(Math.random() * (i + 1)) gives at position i
RECURSIVE ShuffleFrom(_, _, _)
ShuffleFrom(array, js, i) ==
  IF i <= 0 THEN array
  ELSE ShuffleFrom(SwapEntries(array, i, js[i]), js, i - 1)

shuffle(source, js) == ShuffleFrom(source, js, Len(source) - 1)

\* the grid with every entry null
EmptyGrid(cols, rows) == [y \in 1..rows |-> [x \in 1..cols |-> NoAgent]]

\* the forEach writing agents' ids into the grid, for the first n agents
RECURSIVE GridMark(_, _, _)
GridMark(ca, grid, n) ==
  IF n = 0 THEN grid
  ELSE IF isInside(ca, ca.agents[n].cell.x, ca.agents[n].cell.y)
    THEN [GridMark(ca, grid, n - 1) EXCEPT
            ![ca.agents[n].cell.y + 1][ca.agents[n].cell.x + 1] = ca.agents[n].id]
    ELSE GridMark(ca, grid, n - 1)

\* the scenarios of the first loop of seedAgents, two for each odd row
HorizontalScenarios(cols, rows) ==
  [n \in 1..(2 * IntMax(0, (rows - 1) \div 2)) |->
     IF n % 2 = 1
       THEN [anchors |-> << GridCell(1, n), GridCell(cols - 2, n) >>,
             color |-> "horizontalA"]
       ELSE [anchors |-> << GridCell(cols - 2, n - 1), GridCell(1, n - 1) >>,
             color |-> "horizontalB"]]

\* the scenarios of the second loop, two for each even column
VerticalScenarios(cols, rows) ==
  [n \in 1..(2 * IntMax(0, (cols - 3) \div 2)) |->
     IF n % 2 = 1
       THEN [anchors |-> << GridCell(n + 1, 1), GridCell(n + 1, rows - 2) >>,
             color |-> "verticalA"]
       ELSE [anchors |-> << GridCell(n, rows - 2), GridCell(n, 1) >>,
             color |-> "verticalB"]]

\* an agent of the pool: pool.map((template, index) => ...)
SeededAgent(template, index) ==
  [id |-> index,
   cell |-> template.anchors[1],
   anchors |-> template.anchors,
   targetIndex |-> 1,
   color |-> template.color,
   stuckSteps |-> 0]

\* seedAgents once the pool is drawn
seedAgents_pool(ca, pool) ==
  [ca EXCEPT !.agents = [k \in 1..Len(pool) |-> SeededAgent(pool[k], k - 1)]]

\* the grid of ca cleared and marked with its agents
seedAgents_grid(ca) ==
  [ca EXCEPT !.grid = GridMark(ca, EmptyGrid(ca.cols, ca.rows), Len(ca.agents))]

seedAgents_from(ca, scenarios, js) ==
  seedAgents_grid(
    seedAgents_pool(ca,
      SubSeq(shuffle(scenarios, js), 1,
             IntMin(Len(scenarios),
                    FloorInt(Times(Num(ca.cols * ca.rows), Rat(1, 4)))))))

seedAgents(ca, js) ==
  IF ca.cols = 0 \/ ca.rows = 0 THEN [ca EXCEPT !.agents = << >>]
  ELSE seedAgents_from(ca, HorizontalScenarios(ca.cols, ca.rows)
                             \o VerticalScenarios(ca.cols, ca.rows), js)

\* rebuildDomain from the assignment of cellSize, cols and rows on
rebuildDomain_sized(ca, changed, js) ==
  IF changed THEN seedAgents(ca, js)
  ELSE [ca EXCEPT !.grid = GridMark(ca, ca.grid, Len(ca.agents))]

rebuildDomain_next(ca, nextCellSize, nextCols, nextRows, forceReseed, js) ==
  rebuildDomain_sized(
    [ca EXCEPT !.cellSize = nextCellSize, !.cols = nextCols, !.rows = nextRows,
               !.grid = EmptyGrid(nextCols, nextRows)],
    forceReseed \/ nextCellSize # ca.cellSize \/ nextCols # ca.cols
      \/ nextRows # ca.rows \/ Len(ca.agents) = 0,
    js)

rebuildDomain_cells(ca, w, h, nextCellSize, forceReseed, js) ==
  rebuildDomain_next(ca, nextCellSize,
                     IntMax(4, FloorInt(Over(w, Num(nextCellSize)))),
                     IntMax(4, FloorInt(Over(h, Num(nextCellSize)))),
                     forceReseed, js)

rebuildDomain(ca, w, h, p, forceReseed, js) ==
  IF w = Zero \/ h = Zero
    THEN [ca EXCEPT !.cols = 0, !.rows = 0, !.agents = << >>, !.grid = << >>]
    ELSE rebuildDomain_cells(ca, w, h, resolveCellSize(p), forceReseed, js)

\* the neighbour taken as best cell, or the best so far
BestTake(neighbor, distance, allowDrift, best) ==
  IF Lt(Plus(distance, Rat(1, 1000)), best.distance)
       \/ (allowDrift /\ Le(distance, Plus(best.distance, Rat(1, 1000))))
    THEN [cell |-> neighbor, distance |-> distance]
    ELSE best

\* one turn of the loop over the neighbours
BestStep(ca, target, neighbor, allowDrift, best) ==
  IF ~isInside(ca, neighbor.x, neighbor.y) THEN best
  ELSE IF ca.grid[neighbor.y + 1][neighbor.x + 1] # NoAgent THEN best
  ELSE BestTake(neighbor, cellDistance(neighbor, target), allowDrift, best)

\* the loop over the neighbours from the n-th on
RECURSIVE BestFrom(_, _, _, _, _, _)
BestFrom(ca, target, neighbors, allowDrift, n, best) ==
  IF n > Len(neighbors) THEN best
  ELSE BestFrom(ca, target, neighbors, allowDrift, n + 1,
                BestStep(ca, target, neighbors[n], allowDrift, best))

\* bestCell for an agent
BestCell(ca, agent) ==
  BestFrom(ca, agent.anchors[agent.targetIndex + 1], getNeighbors(agent.cell),
           agent.stuckSteps >= 4, 1,
           [cell |-> agent.cell,
            distance |-> cellDistance(agent.cell,
                                      agent.anchors[agent.targetIndex + 1])]).cell

\* CAMove leaving the agent's id in the cell it leaves
CAMove_KeepOld(ca, index, bestCell) ==
  IF ca.agents[index].cell.x # bestCell.x \/ ca.agents[index].cell.y # bestCell.y
    THEN [ca EXCEPT
            !.grid[bestCell.y + 1][bestCell.x + 1] = ca.agents[index].id,
            !.agents[index].cell = bestCell,
            !.agents[index].stuckSteps = 0]
    ELSE [ca EXCEPT !.agents[index].stuckSteps = @ + 1]

\* the agent moved to bestCell, or counted as stuck
CAMove(ca, index, bestCell) ==
  IF ca.agents[index].cell.x # bestCell.x \/ ca.agents[index].cell.y # bestCell.y
    THEN [ca EXCEPT
            !.grid[ca.agents[index].cell.y + 1][ca.agents[index].cell.x + 1] = NoAgent,
            !.grid[bestCell.y + 1][bestCell.x + 1] = ca.agents[index].id,
            !.agents[index].cell = bestCell,
            !.agents[index].stuckSteps = 0]
    ELSE [ca EXCEPT !.agents[index].stuckSteps = @ + 1]

\* the target swapped when the agent stands on it
CAArrive(ca, index, target) ==
  IF ca.agents[index].cell.x = target.x /\ ca.agents[index].cell.y = target.y
    THEN [ca EXCEPT !.agents[index].targetIndex = IF @ = 0 THEN 1 ELSE 0,
                    !.agents[index].stuckSteps = 0]
    ELSE ca

\* the body of the loop of advanceAutomata for one agent
AdvanceAgent(ca, index) ==
  CAArrive(CAMove(ca, index, BestCell(ca, ca.agents[index])), index,
           ca.agents[index].anchors[ca.agents[index].targetIndex + 1])

\* the loop of advanceAutomata from the n-th entry of order on
RECURSIVE AdvanceFrom(_, _, _)
AdvanceFrom(ca, order, n) ==
  IF n > Len(order) THEN ca
  ELSE AdvanceFrom(AdvanceAgent(ca, order[n]), order, n + 1)

advanceAutomata(ca, js) ==
  IF Len(ca.agents) = 0 THEN ca
  ELSE AdvanceFrom(ca, shuffle([k \in 1..Len(ca.agents) |-> k], js), 1)

\* the fields of the model as one record
CAFields == [cellSize |-> probe.cellSize, cols |-> probe.cols, rows |-> probe.rows,
             agents |-> agents, grid |-> probe.grid]

\* the fields written back, with the accumulator, after calls host calls
CAStore(ca, accumulator, calls) ==
  /\ agents' = ca.agents
  /\ probe' = [probe EXCEPT !.cellSize = ca.cellSize, !.cols = ca.cols,
                            !.rows = ca.rows, !.grid = ca.grid,
                            !.accumulator = accumulator, !.calls = calls]

MaxHostCalls == 4
MaxSeeded == 4

\* arena sizes the host passes to resize
CAArenas ==
  { << Zero, Zero >>, << Num(50), Num(50) >>, << Num(120), Num(96) >> }

\* overrides the host passes to configure
CAOverrides ==
  { [n \in {"cellSize"} |-> Num(30)],
    [n \in {"cellSize"} |-> Rat(243, 10)],
    [n \in {"updateRate"} |-> Rat(5, 2)] }

\* elapsed times the host passes to update
CADeltaTimes == { Zero, Rat(3, 10) }

\* what Math.floor(Math.random() * (i + 1)) gives at each position i while
\* the scenarios are shuffled
SeedDraws == { [i \in 1..MaxSeeded |-> 0], [i \in 1..MaxSeeded |-> i] }

\* ... and while the order of n agents is shuffled
OrderDraws(n) == { js \in [1..(n - 1) -> 0..(n - 1)] : \A i \in 1..(n - 1) : js[i] <= i }

CAInit ==
  /\ agentCount = 0
  /\ width = Zero
  /\ height = Zero
  /\ params = << >>
  /\ agents = << >>
  /\ pc = "idle"
  /\ tick = NoTick
  /\ ticks = 0
  /\ call = NoCall
  /\ probe = [op |-> "ca", cellSize |-> DEFAULT_CELL_SIZE, cols |-> 0, rows |-> 0,
              grid |-> << >>, accumulator |-> Zero, calls |-> 0]

\* SimulationModel.resize, with CAModel.onResize
CAResize(w, h, js) ==
  /\ pc = "idle"
  /\ probe.calls < MaxHostCalls
  /\ width' = w
  /\ height' = h
  /\ CAStore(rebuildDomain(CAFields, w, h, params, TRUE, js),
             probe.accumulator, probe.calls + 1)
  /\ ticks' = 0
  /\ call' = [op |-> "resize", deltaTime |-> Zero, before |-> << >>]
  /\ UNCHANGED << agentCount, params, pc, tick >>

\* CAModel.reset
CAReset(js) ==
  /\ pc = "idle"
  /\ probe.calls < MaxHostCalls
  /\ CAStore(rebuildDomain(CAFields, width, height, params, TRUE, js), Zero,
             probe.calls + 1)
  /\ ticks' = 0
  /\ call' = [op |-> "reset", deltaTime |-> Zero, before |-> << >>]
  /\ UNCHANGED << agentCount, width, height, params, pc, tick >>

\* the parameters after configure(nextParams)
Merged(p, nextParams) ==
  [n \in DOMAIN p \cup DOMAIN nextParams |->
     IF n \in DOMAIN nextParams THEN nextParams[n] ELSE p[n]]

\* CAModel.onParamsUpdate under the parameters p
onParamsUpdate(ca, w, h, p, js) ==
  IF resolveCellSize(p) # ca.cellSize THEN rebuildDomain(ca, w, h, p, TRUE, js)
  ELSE ca

\* SimulationModel.configure, with CAModel.onParamsUpdate
CAConfigure(nextParams, js) ==
  /\ pc = "idle"
  /\ probe.calls < MaxHostCalls
  /\ params' = Merged(params, nextParams)
  /\ CAStore(onParamsUpdate(CAFields, width, height, Merged(params, nextParams), js),
             probe.accumulator, probe.calls + 1)
  /\ call' = [op |-> "configure", deltaTime |-> Zero, before |-> << >>]
  /\ UNCHANGED << agentCount, width, height, pc, tick, ticks >>

\* update(deltaTime) returning at once
CAUpdateNoOp(deltaTime) ==
  /\ pc = "idle"
  /\ probe.calls < MaxHostCalls
  /\ Le(deltaTime, Zero) \/ Len(agents) = 0
  /\ probe' = [probe EXCEPT !.calls = @ + 1]
  /\ call' = [op |-> "update", deltaTime |-> deltaTime, before |-> << >>]
  /\ UNCHANGED << agentCount, width, height, params, agents, pc, tick, ticks >>

\* BASE_STEP_SECONDS / rate
StepInterval == Over(BASE_STEP_SECONDS, resolveUpdateRate(params))

\* update(deltaTime) up to its loop
CAUpdateBegin(deltaTime) ==
  /\ pc = "idle"
  /\ ~(Le(deltaTime, Zero) \/ Len(agents) = 0)
  /\ probe.calls < MaxHostCalls
  /\ probe' = [probe EXCEPT
       !.accumulator = Plus(@, MathMin(deltaTime, Rat(1, 2))),
       !.calls = @ + 1]
  /\ pc' = "advance"
  /\ ticks' = ticks + 1
  /\ call' = [op |-> "update", deltaTime |-> deltaTime, before |-> << >>]
  /\ UNCHANGED << agentCount, width, height, params, agents, tick >>

\* one turn of the loop of update
CAAdvance(js) ==
  /\ pc = "advance"
  /\ Ge(probe.accumulator, StepInterval)
  /\ CAStore(advanceAutomata(CAFields, js),
             Minus(probe.accumulator, StepInterval), probe.calls)
  /\ UNCHANGED << agentCount, width, height, params, pc, tick, ticks, call >>

\* the loop of update left, and the return of update
CAUpdateEnd ==
  /\ pc = "advance"
  /\ ~Ge(probe.accumulator, StepInterval)
  /\ pc' = "idle"
  /\ UNCHANGED << probe, agentCount, width, height, params, agents, tick, ticks, call >>

CANext ==
  \/ \E a \in CAArenas, js \in SeedDraws : CAResize(a[1], a[2], js)
  \/ \E js \in SeedDraws : CAReset(js)
  \/ \E nextParams \in CAOverrides, js \in SeedDraws : CAConfigure(nextParams, js)
  \/ \E deltaTime \in CADeltaTimes : CAUpdateNoOp(deltaTime)
  \/ \E deltaTime \in CADeltaTimes : CAUpdateBegin(deltaTime)
  \/ \E js \in OrderDraws(Len(agents)) : CAAdvance(js)
  \/ CAUpdateEnd

SpecCA == CAInit /\ [][CANext]_vars

\* the agents standing in cell (x, y)
AgentsIn(x, y) == { k \in 1..Len(agents) : agents[k].cell = GridCell(x, y) }

\* no two agents are in the same cell, every agent's cell is inside the
\* grid, and the grid, of rows x cols entries, holds at each cell the id of
\* the agent in that cell and null where no agent is
GridMatchesAgents ==
  probe.op = "ca" =>
    /\ \A i, j \in 1..Len(agents) : i # j => agents[i].cell # agents[j].cell
    /\ \A k \in 1..Len(agents) :
         isInside(probe, agents[k].cell.x, agents[k].cell.y)
    /\ Len(probe.grid) = probe.rows
    /\ \A y \in 1..Len(probe.grid) :
         /\ Len(probe.grid[y]) = probe.cols
         /\ \A x \in 1..Len(probe.grid[y]) :
              IF AgentsIn(x - 1, y - 1) = {}
                THEN probe.grid[y][x] = NoAgent
                ELSE \E k \in AgentsIn(x - 1, y - 1) :
                       probe.grid[y][x] = agents[k].id

\* a turn of the loop of update moves an agent by one cell at most, along
\* a row, a column or a diagonal
OneCellAtMost ==
  pc = "advance" =>
    /\ Len(agents') = Len(agents)
    /\ \A k \in 1..Len(agents) :
         /\ Abs(agents'[k].cell.x - agents[k].cell.x) <= 1
         /\ Abs(agents'[k].cell.y - agents[k].cell.y) <= 1

\* C24: in the cellular automaton, whatever calls of resize, reset,
\* configure and update were made, no two agents are in the same cell,
\* every agent's cell is inside the grid, and the grid holds an agent's id
\* at a cell exactly when that agent is in that cell; an agent moves one
\* step to a Moore neighbour at a time
C24_GridMatchesAgents == []GridMatchesAgents /\ [][OneCellAtMost]_vars

\* an update is over after which one agent has arrived at its first target
\* and turned round, another has moved, and a third found no better free
\* cell and stayed
C24_Witness ==
  /\ probe.op = "ca"
  /\ pc = "idle"
  /\ call.op = "update"
  /\ \E i, j, k \in 1..Len(agents) :
       /\ agents[i].targetIndex = 0
       /\ agents[j].targetIndex = 1 /\ agents[j].cell # agents[j].anchors[1]
       /\ agents[k].stuckSteps > 0

====
